---- MODULE Spec2Model ----
(***************************************************************************)
(* Model of climate_hub.acfreedom.coordinator.DeviceCoordinator: the       *)
(* discovery step and loop, the per-device monitor tasks, the trigger      *)
(* events, start()/stop() and the control dispatch, together with the      *)
(* vendor cloud they talk to.  Every await of the code is a point where    *)
(* another task may run, so every action below is the code between two     *)
(* awaits of one task.                                                     *)
(***************************************************************************)
EXTENDS Integers, Sequences, FiniteSets, TLC

\* ------------------------------------------------------------------ bounds
\* how often the vendor's device listing may change during a run
EnvBudget == 2
\* subscribers registered
MaxSubs == 3
\* trigger_update calls that are counted between two wakes of one monitor
MaxTrig == 2
\* the temperatures validated, in tenths of a degree: MinTemp10..MaxTemp10
MinTemp10 == 140
MaxTemp10 == 320
\* devices in the twin that find_device is applied to
MaxTwin == 2
\* connection attempts the push listener and its clients make in a run
MaxAttempts == 3
\* of these, how many the relay refuses
MaxRefusals == 2
\* established connections the relay drops
MaxLosses == 1
\* initk / pingk answers with a status other than 0
MaxRejects == 1
\* steps of TickSeconds the clock makes in a run
MaxTicks == 2
\* pings one keep-alive loop sends in a run
MaxPings == 2
\* browser sockets that connect to the web application in a run
MaxSockets == 3

\* ------------------------------------------------------- program constants
OFFLINE == 0
ONLINE == 1
MIN_TEMPERATURE == 16
MAX_TEMPERATURE == 30
AC_GENERIC == "000000000000000000000000c0620000"
OTHER_PRODUCT == "p1"
\* strings are sequences of characters; these are the endpoint ids in use
D1 == <<"d", "1">>
D2 == <<"d", "2">>
D3 == <<"d", "3">>
\* marks a raw device dictionary that carries no "did" member
NoDid == <<>>
\* value of Device.last_updated before the first refresh
NoStamp == 0

\* ------------------------------------------------------------ vendor cloud
\* the families returned by get_families, in the vendor's order
Families == <<"f1", "f2">>

\* the raw device dictionaries the vendor can list (get_devices), in the
\* vendor's order.  The last one has the shape the client documents for
\* bulk_query_device_state: "endpointId" and "devSession", no "did".
Catalog ==
  << [did |-> D1, endpointId |-> D1, friendlyName |-> <<"A", "c">>,
      productId |-> AC_GENERIC, family |-> "f1"],
     [did |-> D2, endpointId |-> D2, friendlyName |-> <<"a", "c", "2">>,
      productId |-> OTHER_PRODUCT, family |-> "f2"],
     [did |-> NoDid, endpointId |-> D3, friendlyName |-> <<"B">>,
      productId |-> OTHER_PRODUCT, family |-> "f2"] >>

\* values the vendor reports for the standard parameter "temp" (tenths of C)
TempVals == {220}
\* values the vendor reports for the special parameter "mode"
ModeVals == {1}
\* the timestamps time.strftime can produce at a refresh
Stamps == {1}

VARIABLES
  cloud,        \* vendor: the set of Catalog indices currently listed
  envBudget,    \* vendor: remaining changes of the listing
  devices,      \* _devices: insertion-ordered dict, a sequence of Device records
  monitors,     \* _monitors: device key -> task id
  triggers,     \* _triggers: device key -> Event
  ready,        \* _ready_events: device key -> Event (BOOLEAN)
  tasks,        \* every monitor task ever created, by task id
  discTask,     \* _discovery_task is not None
  disc,         \* the running discovery step / the discovery loop
  phase,        \* position of the caller of start() and stop()
  call,         \* the control call in flight, or the last one that returned
  last,         \* outcome of the last finished discovery step
  callbacks,    \* _on_update_callbacks, in registration order
  outer,        \* run_cloud_listener: the listener task of the web application
  clients,      \* every AuxCloudWebSocket object created, by client id
  atts,         \* every connection attempt made (a session and its ws_connect)
  ltasks,       \* the listen and reconnect tasks of the clients
  net,          \* vendor relay: refusals in a row so far, losses left,
                \* attempts made when it last rejected a session
  mgr,          \* the DeviceManager, its API client and its call in flight
  bcast,        \* the last message on_cloud_message was called with
  clock,        \* time.time(), in seconds
  broken,       \* vendor: the family whose requests fail, or "none"
  ka,           \* the keep-alive loops, and the frames on each connection
  hub           \* the ConnectionManager and its broadcast in progress

vars == <<cloud, envBudget, devices, monitors, triggers, ready, tasks,
          discTask, disc, phase, call, last, callbacks,
          outer, clients, atts, ltasks, net, mgr, bcast, clock, broken, ka, hub>>

\* the push listener's state and the coordinator's state
lsn == <<outer, clients, atts, ltasks, net>>

\* the DeviceManager with its API client, and the downstream broadcast log
app == <<mgr, bcast, clock, broken, ka, hub>>

coord == <<cloud, envBudget, devices, monitors, triggers, ready, tasks,
           discTask, disc, phase, call, last, callbacks>>

\* --------------------------------------------------- the ordered dict _devices
Keys(ds) == {ds[i].key : i \in DOMAIN ds}

Has(ds, k) == k \in Keys(ds)

Idx(ds, k) == CHOOSE i \in DOMAIN ds : ds[i].key = k

Get(ds, k) == ds[Idx(ds, k)]

DelKey(ds, k) == SelectSeq(ds, LAMBDA r : r.key # k)

Restrict(f, S) == [x \in S |-> f[x]]

NoParams == [k \in {} |-> 0]

\* dict.update
Update(p, q) == [k \in (DOMAIN p) \cup (DOMAIN q) |-> IF k \in DOMAIN q THEN q[k] ELSE p[k]]

\* Device.is_online
is_online(dev) == dev.state = ONLINE

\* AuxProducts.get_special_params_list
get_special_params_list(product_id) ==
  IF product_id = AC_GENERIC THEN <<"mode">> ELSE <<>>

\* Device(**dev_raw) followed by device.state = state
NewDevice(raw, state) ==
  [key |-> raw.did, endpoint_id |-> raw.endpointId, friendly_name |-> raw.friendlyName,
   product_id |-> raw.productId, state |-> state, params |-> NoParams,
   last_updated |-> NoStamp]

\* asyncio.Event() of _triggers: the flag, with the number of set() calls since
\* the last clear() and whether a delivered trigger still awaits its refresh
NewTrigger == [set |-> FALSE, n |-> 0, pend |-> "none"]

\* a monitor task right after asyncio.create_task
NewTask(did) ==
  [dev |-> did, pc |-> "start", cancelled |-> FALSE, byTrigger |-> FALSE,
   consumed |-> 0, fetched |-> 0, onl |-> FALSE, snap |-> NoParams,
   pub |-> <<>>]

\* the raw list get_devices returns for a family, from the current listing
Listing(cl, f) ==
  SelectSeq(Catalog, LAMBDA r : r.family = f /\ (\E i \in cl : Catalog[i] = r))

\* ------------------------------------------------------------ asyncio.Event
\* a set() that leaves the flag as it is
EventSetNoop(flag) == flag

\* Event.set()
EventSet(flag) == TRUE

\* a clear() that leaves the flag as it is
EventClearNoop(flag) == flag

\* Event.clear()
EventClear(flag) == FALSE

\* ------------------------------------------------------------- asyncio.Task
\* a cancel() that requests nothing
CancelTaskNoop(task) == task

\* Task.cancel(): a finished task is left alone; otherwise CancelledError is
\* thrown into the task at its current await when it is next resumed
CancelTask(task) ==
  IF task.pc = "done" THEN task ELSE [task EXCEPT !.cancelled = TRUE]

\* the coordinator's dicts and tasks as one value
World == [devices |-> devices, monitors |-> monitors, triggers |-> triggers,
          ready |-> ready, tasks |-> tasks]

Commit(w) ==
  /\ devices' = w.devices
  /\ monitors' = w.monitors
  /\ triggers' = w.triggers
  /\ ready' = w.ready
  /\ tasks' = w.tasks

\* ---------------------------------------------------------- _start_monitor
\* a monitor started without its ready latch
_start_monitor_unlatched(w, did) ==
  IF did \in DOMAIN w.monitors
  THEN w
  ELSE [w EXCEPT !.triggers = (did :> NewTrigger) @@ w.triggers,
                 !.monitors = (did :> (Len(w.tasks) + 1)) @@ w.monitors,
                 !.tasks = Append(w.tasks, NewTask(did))]

_start_monitor(w, did) ==
  IF did \in DOMAIN w.monitors
  THEN w
  ELSE [w EXCEPT !.triggers = (did :> NewTrigger) @@ w.triggers,
                 !.ready = (did :> FALSE) @@ w.ready,
                 !.monitors = (did :> (Len(w.tasks) + 1)) @@ w.monitors,
                 !.tasks = Append(w.tasks, NewTask(did))]

\* start(): for device_id in self._devices: self._start_monitor(device_id)
RECURSIVE StartAll(_, _)
StartAll(w, i) ==
  IF i > Len(w.devices) THEN w
  ELSE StartAll(_start_monitor(w, w.devices[i].key), i + 1)

\* ---------------------------------------------------------- _discovery_step
\* a step that constructs the Device again for a device it already knows
UpdateKnownRebuilds(ds, raw, state) ==
  [ds EXCEPT ![Idx(ds, raw.did)] = NewDevice(raw, state)]

\* "Update basic state in existing device": self._devices[did].state = state
UpdateKnown(ds, raw, state) ==
  [ds EXCEPT ![Idx(ds, raw.did)].state = state]

\* the loop over devices_raw after bulk_query_device_state returned st; acc is
\* [w, seen, err]; err is the KeyError of dev_raw["did"], which ends the step
RECURSIVE ProcessRaw(_, _, _, _)
ProcessRaw(raws, st, running, acc) ==
  IF raws = <<>> THEN acc
  ELSE LET r == Head(raws) IN
    IF r.did = NoDid THEN [acc EXCEPT !.err = TRUE]
    ELSE
      LET did == r.did
          state == IF did \in DOMAIN st THEN st[did] ELSE OFFLINE
          w == acc.w
          wNew == [w EXCEPT !.devices = Append(w.devices, NewDevice(r, state))]
          wUpd == [w EXCEPT !.devices = UpdateKnown(w.devices, r, state)]
          w2 == IF ~Has(w.devices, did)
                THEN (IF running THEN _start_monitor(wNew, did) ELSE wNew)
                ELSE wUpd
      IN ProcessRaw(Tail(raws), st, running,
                    [w |-> w2, seen |-> acc.seen \cup {did}, err |-> FALSE])

\* "Cleanup removed devices": cancel the monitor, then delete the four entries
Cleanup(w, seen) ==
  LET removed == Keys(w.devices) \ seen
      hit(t) == \E did \in removed \cap DOMAIN w.monitors : w.monitors[did] = t
  IN [devices |-> SelectSeq(w.devices, LAMBDA r : r.key \notin removed),
      monitors |-> Restrict(w.monitors, DOMAIN w.monitors \ removed),
      triggers |-> Restrict(w.triggers, DOMAIN w.triggers \ removed),
      ready |-> Restrict(w.ready, DOMAIN w.ready \ removed),
      tasks |-> [t \in DOMAIN w.tasks |->
                   IF hit(t) THEN CancelTask(w.tasks[t]) ELSE w.tasks[t]]]

StepPcs == {"families", "devices", "bulk"}

IdleDisc(pc) == [pc |-> pc, fam |-> 0, seen |-> {}, raw |-> <<>>, ids |-> {}]

\* the request of get_families has been issued
BeginStep == disc' = IdleDisc("families")

\* The end of a discovery step, by return or by the swallowed exception.  The
\* initial step runs inside start(), which goes on without an await: it starts
\* a monitor per device and awaits the ready latches, or, with no device,
\* creates the discovery task and returns.
EndStep(w, ids, apiErr) ==
  /\ last' = [done |-> TRUE, ids |-> ids, apiErr |-> apiErr]
  /\ IF phase = "discovering"
     THEN IF w.devices = <<>>
          THEN /\ Commit(w)
               /\ phase' = "started"
               /\ discTask' = TRUE
               /\ disc' = IdleDisc("sleep")
          ELSE /\ Commit(StartAll(w, 1))
               /\ phase' = "gather"
               /\ discTask' = discTask
               /\ disc' = IdleDisc("idle")
     ELSE /\ Commit(w)
          /\ phase' = phase
          /\ discTask' = discTask
          /\ disc' = IdleDisc("sleep")

\* after the last family the step cleans up and ends; otherwise it issues
\* get_devices for the next family
NextFamily(w, seen, ids) ==
  IF disc.fam = Len(Families)
  THEN EndStep(Cleanup(w, seen), ids, FALSE)
  ELSE /\ Commit(w)
       /\ disc' = [pc |-> "devices", fam |-> disc.fam + 1, seen |-> seen,
                   raw |-> <<>>, ids |-> ids]
       /\ UNCHANGED <<phase, discTask, last>>

\* start(): the initial discovery step begins
Start ==
  /\ phase = "new"
  /\ phase' = "discovering"
  /\ BeginStep
  /\ UNCHANGED <<lsn, app, cloud, envBudget, callbacks, devices, monitors, triggers, ready, tasks,
                 discTask, call, last>>

\* _discovery_loop: asyncio.sleep(discovery_interval) is over.  The event loop
\* runs the handles that were ready before the timer fired, so a task
\* cancelled by the previous step has been resumed with CancelledError first.
DiscoveryWake ==
  /\ disc.pc = "sleep"
  /\ \A t \in DOMAIN tasks : tasks[t].cancelled => tasks[t].pc = "done"
  /\ BeginStep
  /\ UNCHANGED <<lsn, app, cloud, envBudget, callbacks, devices, monitors, triggers, ready, tasks,
                 discTask, phase, call, last>>

\* get_families returned
FamiliesOk ==
  /\ disc.pc = "families"
  /\ disc' = [disc EXCEPT !.pc = "devices", !.fam = 1]
  /\ UNCHANGED <<lsn, app, cloud, envBudget, callbacks, devices, monitors, triggers, ready, tasks,
                 discTask, phase, call, last>>

\* get_devices returned the family's raw list; an empty list skips the bulk
\* state query
DevicesOk ==
  /\ disc.pc = "devices"
  /\ LET raw == Listing(cloud, Families[disc.fam])
         ids == disc.ids \cup {raw[i].endpointId : i \in DOMAIN raw}
     IN IF raw = <<>>
        THEN NextFamily(World, disc.seen, ids)
        ELSE /\ disc' = [disc EXCEPT !.pc = "bulk", !.raw = raw, !.ids = ids]
             /\ UNCHANGED <<devices, monitors, triggers, ready, tasks,
                            discTask, phase, last>>
  /\ UNCHANGED <<lsn, app, cloud, envBudget, callbacks, call>>

\* bulk_query_device_state returned: one state per queried endpoint id, or no
\* entry for it
BulkOk ==
  /\ disc.pc = "bulk"
  /\ \E S \in SUBSET {disc.raw[i].endpointId : i \in DOMAIN disc.raw} :
       \E st \in [S -> {OFFLINE, ONLINE}] :
         LET acc == ProcessRaw(disc.raw, st, discTask,
                               [w |-> World, seen |-> disc.seen, err |-> FALSE])
         IN IF acc.err
            THEN EndStep(acc.w, disc.ids, FALSE)
            ELSE NextFamily(acc.w, acc.seen, disc.ids)
  /\ UNCHANGED <<lsn, app, cloud, envBudget, callbacks, call>>

\* a step whose cleanup runs although a vendor call raised, as from a finally
\* clause
DiscoveryApiErrorCleans ==
  /\ disc.pc \in StepPcs
  /\ EndStep(Cleanup(World, disc.seen), disc.ids, TRUE)
  /\ UNCHANGED <<lsn, app, cloud, envBudget, callbacks, call>>

\* any of the three vendor calls of the step raised: logged and swallowed
DiscoveryApiError ==
  /\ disc.pc \in StepPcs
  /\ EndStep(World, disc.ids, TRUE)
  /\ UNCHANGED <<lsn, app, cloud, envBudget, callbacks, call>>

\* ----------------------------------------------------------- _notify_update
\* a subscriber is a callback that returns or raises an Exception
Callback(raises) == [raises |-> raises]

\* on_update
on_update(cbs, callback) == Append(cbs, callback)

\* a loop that the first raising callback ends
RECURSIVE NotifyUntilRaise(_, _, _, _)
NotifyUntilRaise(cbs, i, did, acc) ==
  IF i > Len(cbs) THEN acc
  ELSE LET inv == [cb |-> i, device |-> did, raised |-> cbs[i].raises]
       IN IF cbs[i].raises THEN Append(acc, inv)
          ELSE NotifyUntilRaise(cbs, i + 1, did, Append(acc, inv))

\* the loop of _notify_update from callback i on: each callback is invoked
\* with the device; an Exception it raises is logged and the loop goes on.
\* The result is the sequence of invocations made.
RECURSIVE Notify(_, _, _, _)
Notify(cbs, i, did, acc) ==
  IF i > Len(cbs) THEN acc
  ELSE Notify(cbs, i + 1, did,
              Append(acc, [cb |-> i, device |-> did, raised |-> cbs[i].raises]))

_notify_update(cbs, did) == Notify(cbs, 1, did, <<>>)

\* ------------------------------------------------------------ _monitor_loop
SetTask(ts, t, task) == [ts EXCEPT ![t] = task]

\* A task whose loop raises inside its own exception handler ends (only a
\* task that lost its dict entries can do so)
Crash(task) == [NewTask(task.dev) EXCEPT !.pc = "done"]

\* a monitor that never fetches
ShouldFetchNever(ds, d) == FALSE

\* a monitor that fetches for every device of the twin, online or not
ShouldFetchPresent(ds, d) == Has(ds, d)

\* "if device and device.is_online", with device = self._devices.get(device_id)
ShouldFetch(ds, d) == Has(ds, d) /\ is_online(Get(ds, d))

\* The top of the loop body up to the next await.  An online device gets its
\* get-params request issued; otherwise the pass sets the ready latch and
\* enters wait_for.  ev is the trigger of the device after the wake.
BeginPass(t, w, byTrigger, consumed) ==
  LET task == w.tasks[t]
      d == task.dev
      online == \E i \in DOMAIN w.devices :
                  w.devices[i].key = d /\ w.devices[i].state = ONLINE
  IN IF ShouldFetch(w.devices, d)
     THEN [w EXCEPT
             !.tasks[t] = [task EXCEPT !.pc = "std", !.byTrigger = byTrigger,
                             !.consumed = consumed, !.fetched = 1, !.onl = online,
                             !.snap = Get(w.devices, d).params, !.pub = <<>>],
             !.triggers = IF d \in DOMAIN w.triggers
                          THEN [w.triggers EXCEPT ![d].pend = "none"]
                          ELSE w.triggers]
     ELSE IF d \notin DOMAIN w.ready
     THEN [w EXCEPT !.tasks[t] = Crash(task)]
     ELSE [w EXCEPT
             !.tasks[t] = [task EXCEPT !.pc = "wait", !.byTrigger = byTrigger,
                             !.consumed = consumed, !.fetched = 0, !.onl = online,
                             !.snap = NoParams, !.pub = <<>>],
             !.ready[d] = TRUE,
             !.triggers[d].pend =
                 IF w.triggers[d].pend = "pending" /\ ~w.triggers[d].set
                 THEN "skipped" ELSE w.triggers[d].pend]

\* the pass is over: last_updated, the fan-out, the ready latch, then wait_for
FinishPass(t, w, stamp) ==
  LET task == w.tasks[t]
      d == task.dev
      w1 == IF Has(w.devices, d)
            THEN [w EXCEPT !.devices[Idx(w.devices, d)].last_updated = stamp]
            ELSE w
  IN IF d \notin DOMAIN w.ready
     THEN [w1 EXCEPT !.tasks[t] = Crash(task)]
     ELSE [w1 EXCEPT !.tasks[t].pc = "wait", !.tasks[t].snap = NoParams,
                     !.tasks[t].pub = _notify_update(callbacks, d),
                     !.ready[d] = TRUE]

\* an exception handler that sleeps without setting the ready latch
ErrorPathUnlatched(t, w) ==
  LET task == w.tasks[t]
      d == task.dev
  IN IF d \notin DOMAIN w.ready
     THEN [w EXCEPT !.tasks[t] = Crash(task)]
     ELSE [w EXCEPT !.tasks[t].pc = "errsleep"]

\* except Exception: set the ready latch and sleep 10 s
ErrorPath(t, w) ==
  LET task == w.tasks[t]
      d == task.dev
  IN IF d \notin DOMAIN w.ready
     THEN [w EXCEPT !.tasks[t] = Crash(task)]
     ELSE [w EXCEPT !.tasks[t].pc = "errsleep", !.ready[d] = TRUE]

\* a task that goes on after a cancel() as if CancelledError were swallowed
RunsThoughCancelled(t, pc) == tasks[t].pc = pc

\* the task is suspended at pc and resumes normally: a cancelled task is
\* resumed with CancelledError instead (CancelDeliver)
Runs(t, pc) == tasks[t].pc = pc /\ ~tasks[t].cancelled

MonitorFrame == UNCHANGED <<lsn, app, cloud, envBudget, callbacks, discTask, disc, phase, call, last>>

\* the first step of a monitor task
MonitorFirst(t) ==
  /\ Runs(t, "start")
  /\ Commit(BeginPass(t, World, FALSE, 0))
  /\ MonitorFrame

\* wait_for returned, by the trigger or by the timeout; the trigger is cleared
\* and the next pass begins without an await in between
MonitorWake(t) ==
  /\ Runs(t, "wait")
  /\ LET d == tasks[t].dev IN
       IF d \notin DOMAIN triggers
       THEN Commit(ErrorPath(t, World))
       ELSE LET ev == triggers[d]
                w == [World EXCEPT !.triggers[d].set = EventClear(ev.set),
                                   !.triggers[d].n = 0]
            IN Commit(BeginPass(t, w, ev.set, ev.n))
  /\ MonitorFrame

\* asyncio.sleep(10) of the error path is over
MonitorRetry(t) ==
  /\ Runs(t, "errsleep")
  /\ Commit(BeginPass(t, World, FALSE, 0))
  /\ MonitorFrame

\* _fetch_params: the standard get_device_params returned; the mapping is
\* replaced, and the special request is issued if the product has a list
FetchStdOk(t) ==
  /\ Runs(t, "std")
  /\ \E v \in TempVals, stamp \in Stamps :
       LET d == tasks[t].dev
           w1 == IF Has(devices, d)
                 THEN [World EXCEPT !.devices[Idx(devices, d)].params = [k \in {"temp"} |-> v]]
                 ELSE World
           special == IF Has(devices, d)
                      THEN get_special_params_list(Get(devices, d).product_id)
                      ELSE <<>>
       IN IF special # <<>>
          THEN Commit([w1 EXCEPT !.tasks[t].pc = "spc"])
          ELSE Commit(FinishPass(t, w1, stamp))
  /\ MonitorFrame

\* _fetch_params: the special get_device_params returned; dict.update
FetchSpcOk(t) ==
  /\ Runs(t, "spc")
  /\ \E m \in ModeVals, stamp \in Stamps :
       LET d == tasks[t].dev
           w1 == IF Has(devices, d)
                 THEN [World EXCEPT !.devices[Idx(devices, d)].params =
                         Update(@, [k \in {"mode"} |-> m])]
                 ELSE World
       IN Commit(FinishPass(t, w1, stamp))
  /\ MonitorFrame

\* a get_device_params call raised and the exception left the loop
FetchErrorEscapes(t) ==
  /\ (Runs(t, "std") \/ Runs(t, "spc"))
  /\ Commit([World EXCEPT !.tasks[t] = Crash(tasks[t])])
  /\ MonitorFrame

\* a get_device_params call raised
FetchError(t) ==
  /\ (Runs(t, "std") \/ Runs(t, "spc"))
  /\ Commit(ErrorPath(t, World))
  /\ MonitorFrame

\* --- subscribers that are coroutine functions
\* a subscriber whose callback is awaited; slow marks the one that takes long
Subscriber(slow) == [raises |-> FALSE, slow |-> slow]

\* _notify_update from callback i on, up to its next await: callback i is
\* invoked and awaited (pc cb; the last entry of pub is the call in
\* progress); after the last callback the pass sets the ready latch and waits
NotifyFrom(t, w, i) ==
  LET task == w.tasks[t]
      d == task.dev
  IN IF i <= Len(callbacks)
     THEN [w EXCEPT !.tasks[t].pc = "cb",
                    !.tasks[t].pub = Append(task.pub, [cb |-> i, device |-> d,
                                                       raised |-> FALSE])]
     ELSE IF d \notin DOMAIN w.ready
     THEN [w EXCEPT !.tasks[t] = Crash(task)]
     ELSE [w EXCEPT !.tasks[t].pc = "wait", !.tasks[t].snap = NoParams,
                    !.ready[d] = TRUE]

\* _fetch_params: the special get_device_params returned; dict.update, then
\* last_updated and the first await of _notify_update
FetchSpcOkAwaited(t) ==
  /\ Runs(t, "spc")
  /\ \E m \in ModeVals, stamp \in Stamps :
       LET d == tasks[t].dev
           w1 == IF Has(devices, d)
                 THEN [World EXCEPT
                         !.devices[Idx(devices, d)].params =
                             Update(@, [k \in {"mode"} |-> m]),
                         !.devices[Idx(devices, d)].last_updated = stamp]
                 ELSE World
       IN Commit(NotifyFrom(t, w1, 1))
  /\ MonitorFrame

\* the awaited callback returned: the loop of _notify_update goes on
CallbackReturns(t, slow) ==
  /\ Runs(t, "cb")
  /\ callbacks[Len(tasks[t].pub)].slow = slow
  /\ Commit(NotifyFrom(t, World, Len(tasks[t].pub) + 1))
  /\ MonitorFrame

\* the cancelled task is resumed: CancelledError leaves the loop
CancelDeliver(t) ==
  /\ tasks[t].cancelled
  /\ tasks[t].pc # "done"
  /\ tasks' = [tasks EXCEPT ![t] = [NewTask(@.dev) EXCEPT !.pc = "done", !.cancelled = TRUE]]
  /\ UNCHANGED <<lsn, app, cloud, envBudget, callbacks, devices, monitors, triggers, ready,
                 discTask, disc, phase, call, last>>

\* ----------------------------------------------------------- trigger_update
Min(a, b) == IF a < b THEN a ELSE b

trigger_update(trg, device_id) ==
  IF device_id \in DOMAIN trg
  THEN [trg EXCEPT ![device_id] =
          [set |-> EventSet(@.set), n |-> Min(@.n + 1, MaxTrig), pend |-> "pending"]]
  ELSE trg

\* a cloud push names an endpoint id (webapp/background.py)
PushTrigger(id) ==
  /\ triggers' = trigger_update(triggers, id)
  /\ triggers' # triggers
  /\ UNCHANGED <<lsn, app, cloud, envBudget, callbacks, devices, monitors, ready, tasks,
                 discTask, disc, phase, call, last>>

\* ------------------------------------------------------------- DeviceFinder
\* the letters of the names and identifiers in the model
UpperLetters ==
  <<"A", "B", "C", "D", "E", "F", "G", "H", "I", "J", "K", "L", "M",
    "N", "O", "P", "Q", "R", "S", "T", "U", "V", "W", "X", "Y", "Z">>

LowerLetters ==
  <<"a", "b", "c", "d", "e", "f", "g", "h", "i", "j", "k", "l", "m",
    "n", "o", "p", "q", "r", "s", "t", "u", "v", "w", "x", "y", "z">>

\* str.lower(), on one character
LowerChar(c) ==
  IF \E i \in DOMAIN UpperLetters : UpperLetters[i] = c
  THEN LowerLetters[CHOOSE i \in DOMAIN UpperLetters : UpperLetters[i] = c]
  ELSE c

Lower(str) == [i \in DOMAIN str |-> LowerChar(str[i])]

\* the Python operator "in" on two strings
IsSubstring(u, str) ==
  \E i \in 0..(Len(str) - Len(u)) : SubSeq(str, i + 1, i + Len(u)) = u

\* the first match of a loop over the devices in order, 0 when none matches
FirstOf(S) == IF S = {} THEN 0 ELSE CHOOSE i \in S : \A j \in S : i <= j

\* the partial match tried before the exact name match
find_device_partial_first(ds, device_id) ==
  LET byId == FirstOf({i \in DOMAIN ds : ds[i].endpoint_id = device_id})
      byName == FirstOf({i \in DOMAIN ds :
                           Lower(ds[i].friendly_name) = Lower(device_id)})
      bySub == FirstOf({i \in DOMAIN ds :
                          IsSubstring(Lower(device_id), Lower(ds[i].friendly_name))})
  IN IF byId # 0 THEN byId ELSE IF bySub # 0 THEN bySub ELSE byName

\* DeviceFinder.find_device: the index of the device found, 0 for
\* DeviceNotFoundError
find_device(ds, device_id) ==
  LET byId == FirstOf({i \in DOMAIN ds : ds[i].endpoint_id = device_id})
      byName == FirstOf({i \in DOMAIN ds :
                           Lower(ds[i].friendly_name) = Lower(device_id)})
      bySub == FirstOf({i \in DOMAIN ds :
                          IsSubstring(Lower(device_id), Lower(ds[i].friendly_name))})
  IN IF byId # 0 THEN byId ELSE IF byName # 0 THEN byName ELSE bySub

\* DeviceCoordinator.find_device on the cached devices: the device found or
\* DeviceNotFoundError.  The lookup is recorded in call.
FindDevice(q) ==
  /\ LET i == find_device(devices, q)
     IN call' = [pc |-> "found", q |-> q, idx |-> i,
                 eid |-> IF i = 0 THEN NoDid ELSE devices[i].endpoint_id,
                 res |-> IF i = 0 THEN "DeviceNotFound" ELSE "ok"]
  /\ UNCHANGED <<lsn, app, cloud, envBudget, callbacks, devices, monitors, triggers,
                 ready, tasks, discTask, disc, phase, last>>

\* str.upper(), on one character; "sz" stands for
\* the one character LATIN SMALL LETTER SHARP S, whose upper case is "SS"
UpperChar(c) ==
  IF c = "sz" THEN <<"S", "S">>
  ELSE IF \E i \in DOMAIN LowerLetters : LowerLetters[i] = c
  THEN <<UpperLetters[CHOOSE i \in DOMAIN LowerLetters : LowerLetters[i] = c]>>
  ELSE <<c>>

RECURSIVE Upper(_)
Upper(str) ==
  IF str = <<>> THEN <<>> ELSE UpperChar(Head(str)) \o Upper(Tail(str))

\* the friendly names and the identifiers used for the lookups
FinderNames ==
  {<<"A", "c">>, <<"a", "c">>, <<"a", "c", "2">>, <<"B">>, <<"sz">>}

FinderIds == {D1, D2, D3}

FinderQueries ==
  FinderIds \cup FinderNames \cup {Upper(n) : n \in FinderNames}
    \cup {<<>>, <<"c">>, <<"x">>}

\* the twins of up to MaxTwin devices: distinct endpoint ids, any names
RECURSIVE Twins(_)
Twins(n) ==
  IF n = 0 THEN {<<>>}
  ELSE LET shorter == Twins(n - 1)
       IN shorter \cup
          {Append(ds, NewDevice([did |-> id, endpointId |-> id,
                                 friendlyName |-> nm,
                                 productId |-> OTHER_PRODUCT], ONLINE)) :
             <<ds, id, nm>> \in
               {x \in shorter \X FinderIds \X FinderNames :
                  /\ Len(x[1]) = n - 1
                  /\ \A i \in DOMAIN x[1] : x[1][i].endpoint_id # x[2]}}

\* ------------------------------------------------------------ DeviceControl
MODE_MAP == << <<"c", "o", "o", "l">>, <<"h", "e", "a", "t">>, <<"d", "r", "y">>,
               <<"f", "a", "n">>, <<"a", "u", "t", "o">> >>

FAN_SPEED_MAP == << <<"a", "u", "t", "o">>, <<"l", "o", "w">>,
                    <<"m", "e", "d", "i", "u", "m">>, <<"h", "i", "g", "h">>,
                    <<"t", "u", "r", "b", "o">>, <<"m", "u", "t", "e">> >>

SWING_DIRECTIONS == << <<"v", "e", "r", "t", "i", "c", "a", "l">>,
                       <<"h", "o", "r", "i", "z", "o", "n", "t", "a", "l">> >>

Invalid == [ok |-> FALSE, params |-> NoParams]

Valid(name, value) == [ok |-> TRUE, params |-> [k \in {name} |-> value]]

Position(table, str) ==
  IF \E i \in DOMAIN table : table[i] = str
  THEN CHOOSE i \in DOMAIN table : table[i] = str
  ELSE 0

\* the exception with the members its constructor stores
InvalidParameterError(param_name, value, valid_values) ==
  [ok |-> FALSE, params |-> NoParams, param_name |-> param_name,
   value |-> value, valid_values |-> valid_values]

\* the accepted range as validate_temperature formats it, "16-30 C"
TemperatureRange == <<[lo |-> MIN_TEMPERATURE, hi |-> MAX_TEMPERATURE]>>

\* the upper limit taken as exclusive
validate_temperature_exclusive(t10) ==
  IF MIN_TEMPERATURE * 10 <= t10 /\ t10 < MAX_TEMPERATURE * 10
  THEN Valid("temp", t10)
  ELSE InvalidParameterError("temperature", t10, TemperatureRange)

\* validate_temperature and int(temperature * 10); t10 is the temperature in
\* tenths of a degree
validate_temperature(t10) ==
  IF MIN_TEMPERATURE * 10 <= t10 /\ t10 <= MAX_TEMPERATURE * 10
  THEN Valid("temp", t10)
  ELSE InvalidParameterError("temperature", t10, TemperatureRange)

\* DeviceControl.validate_temperature called on its own; the outcome is
\* recorded in call
ValidateTemperature(t10) ==
  /\ call' = [pc |-> "validated", t10 |-> t10, v |-> validate_temperature(t10)]
  /\ UNCHANGED <<lsn, app, cloud, envBudget, callbacks, devices, monitors, triggers,
                 ready, tasks, discTask, disc, phase, last>>

\* the names compared as they are given
validate_mode_case_sensitive(mode) ==
  LET i == Position(MODE_MAP, mode)
  IN IF i = 0 THEN InvalidParameterError("mode", mode, MODE_MAP)
     ELSE Valid("ac_mode", i - 1)

\* validate_mode: MODE_MAP maps its i-th name to {"ac_mode": i - 1}
validate_mode(mode) ==
  LET i == Position(MODE_MAP, Lower(mode))
  IN IF i = 0 THEN InvalidParameterError("mode", mode, MODE_MAP)
     ELSE Valid("ac_mode", i - 1)

\* validate_fan_speed: FAN_SPEED_MAP maps its i-th name to ACFanSpeed i - 1
validate_fan_speed(speed) ==
  LET i == Position(FAN_SPEED_MAP, Lower(speed))
  IN IF i = 0 THEN InvalidParameterError("fan_speed", speed, FAN_SPEED_MAP)
     ELSE Valid("ac_mark", i - 1)

\* the validators called on their own; the outcome is recorded in call
ValidateMode(mode) ==
  /\ call' = [pc |-> "mode", arg |-> mode, v |-> validate_mode(mode)]
  /\ UNCHANGED <<lsn, app, cloud, envBudget, callbacks, devices, monitors, triggers,
                 ready, tasks, discTask, disc, phase, last>>

ValidateFanSpeed(speed) ==
  /\ call' = [pc |-> "fan_speed", arg |-> speed, v |-> validate_fan_speed(speed)]
  /\ UNCHANGED <<lsn, app, cloud, envBudget, callbacks, devices, monitors, triggers,
                 ready, tasks, discTask, disc, phase, last>>

\* a name with each of its letters in either case
RECURSIVE CaseVariants(_)
CaseVariants(str) ==
  IF str = <<>> THEN {<<>>}
  ELSE {<<c>> \o rest : c \in {Head(str), UpperChar(Head(str))[1]},
                         rest \in CaseVariants(Tail(str))}

Names(table) == {table[i] : i \in DOMAIN table}

\* the strings validated: every accepted name of either table in every
\* letter case, and strings that are no name
NameInputs ==
  UNION {CaseVariants(n) : n \in Names(MODE_MAP) \cup Names(FAN_SPEED_MAP)}
  \cup {<<>>, <<"w", "a", "r", "m">>, <<"f", "a", "s", "t">>, <<"c", "o", "o">>,
         <<"c", "o", "o", "l", "s">>, <<" ", "c", "o", "o", "l">>, <<"0">>}

\* validate_swing_direction and get_swing_params
swing_params(direction, on) ==
  LET i == Position(SWING_DIRECTIONS, Lower(direction))
  IN IF i = 0 THEN Invalid
     ELSE Valid(IF i = 1 THEN "ac_vdir" ELSE "ac_hdir", IF on THEN 1 ELSE 0)

\* the control operations with the arguments tried
ControlInputs ==
  {[op |-> "set_power", val |-> b] : b \in BOOLEAN}
  \cup {[op |-> "set_temperature", val |-> t] : t \in {225, 301}}
  \cup {[op |-> "set_mode", val |-> m] : m \in {<<"C", "o", "o", "l">>, <<"w", "a", "r", "m">>}}
  \cup {[op |-> "set_fan_speed", val |-> f] : f \in {<<"T", "U", "R", "B", "O">>, <<"f", "a", "s", "t">>}}
  \cup {[op |-> "set_swing", val |-> v] : v \in {<<"V", "e", "r", "t", "i", "c", "a", "l">>, <<"u", "p">>}}

\* what each operation does before it calls _execute_control
Prepare(inp) ==
  CASE inp.op = "set_power" -> Valid("pwr", IF inp.val THEN 1 ELSE 0)
    [] inp.op = "set_temperature" -> validate_temperature(inp.val)
    [] inp.op = "set_mode" -> validate_mode(inp.val)
    [] inp.op = "set_fan_speed" -> validate_fan_speed(inp.val)
    [] inp.op = "set_swing" -> swing_params(inp.val, TRUE)

\* the identifiers a caller passes: two endpoint ids, a name, no match
Queries == {D1, D2, <<"a", "c">>, <<"z">>}

\* -------------------------------------------------------- control dispatch
\* eid: the endpoint id of the device the request was sent for; sent: a
\* set-params request was issued; offEntry: the identifier resolved to a device
\* whose cached online flag was false when the call was made
IdleCall == [pc |-> "idle", eid |-> NoDid, res |-> "none", sent |-> FALSE,
             offEntry |-> FALSE]

Returned(res, eid, sent, offEntry) ==
  [pc |-> "done", eid |-> eid, res |-> res, sent |-> sent, offEntry |-> offEntry]

\* set_power .. set_swing up to the await of set_device_params: the operation
\* validates its argument, then _execute_control looks the device up and
\* checks the cached online flag.  Callers are served once start() has
\* returned (webapp/main.py awaits coordinator.start() in the lifespan).
Control(inp, q) ==
  /\ phase = "started"
  /\ call.pc # "inflight"
  /\ LET v == Prepare(inp)
         i == find_device(devices, q)
         offEntry == i # 0 /\ ~is_online(devices[i])
     IN call' =
          IF ~v.ok THEN Returned("InvalidParameter", NoDid, FALSE, offEntry)
          ELSE IF i = 0 THEN Returned("DeviceNotFound", NoDid, FALSE, offEntry)
          ELSE IF ~is_online(devices[i]) THEN Returned("DeviceOffline", NoDid, FALSE, offEntry)
          ELSE [pc |-> "inflight", eid |-> devices[i].endpoint_id, res |-> "none",
                sent |-> TRUE, offEntry |-> FALSE, params |-> v.params]
  /\ UNCHANGED <<lsn, app, cloud, envBudget, callbacks, devices, monitors, triggers, ready, tasks,
                 discTask, disc, phase, last>>

\* what set_device_params can do: return, or raise the API's ServerBusyError,
\* DeviceOfflineError, another AuxAPIError, or the ValueError of a malformed
\* envelope
ApiOutcomes == {"ok", "busy", "unreachable", "api_error", "malformed"}

\* the except clauses of _execute_control
MapOutcome(o) ==
  CASE o = "ok" -> "ok"
    [] o = "busy" -> "ServerBusy"
    [] o = "unreachable" -> "DeviceOffline"
    [] o = "api_error" -> "ClimateHubError"
    [] o = "malformed" -> "ValueError"

\* the trigger fired whatever the request did, as from a finally clause
AfterSetParamsAlways(trg, eid, o) == trigger_update(trg, eid)

\* _execute_control after the await: trigger_update is the statement after the
\* request inside the try block, so only a request that returned reaches it
AfterSetParams(trg, eid, o) ==
  IF o = "ok" THEN trigger_update(trg, eid) ELSE trg

ControlReturn(o) ==
  /\ call.pc = "inflight"
  /\ triggers' = AfterSetParams(triggers, call.eid, o)
  /\ call' = Returned(MapOutcome(o), call.eid, TRUE, FALSE)
  /\ UNCHANGED <<lsn, app, cloud, envBudget, callbacks, devices, monitors, ready, tasks,
                 discTask, disc, phase, last>>

\* ------------------------------------------------------------------- stop()
MonitorTasks == {monitors[d] : d \in DOMAIN monitors}

\* a stop() that leaves the discovery task alone
StopMonitorsOnly ==
  /\ phase = "started"
  /\ disc' = disc
  /\ tasks' = [t \in DOMAIN tasks |->
                 IF t \in MonitorTasks THEN CancelTask(tasks[t]) ELSE tasks[t]]
  /\ phase' = IF DOMAIN monitors = {} THEN "stopped" ELSE "stopping"
  /\ UNCHANGED <<lsn, app, cloud, envBudget, callbacks, devices, monitors, triggers, ready,
                 discTask, call, last>>

\* stop(): cancel the discovery task and every monitor, then gather
Stop ==
  /\ phase = "started"
  /\ disc' = IdleDisc("cancelled")
  /\ tasks' = [t \in DOMAIN tasks |->
                 IF t \in MonitorTasks THEN CancelTask(tasks[t]) ELSE tasks[t]]
  /\ phase' = IF DOMAIN monitors = {} THEN "stopped" ELSE "stopping"
  /\ UNCHANGED <<lsn, app, cloud, envBudget, callbacks, devices, monitors, triggers, ready,
                 discTask, call, last>>

\* gather(*self._monitors.values()) is complete
StopReturn ==
  /\ phase = "stopping"
  /\ \A t \in MonitorTasks : tasks[t].pc = "done"
  /\ phase' = "stopped"
  /\ UNCHANGED <<lsn, app, cloud, envBudget, callbacks, devices, monitors, triggers, ready, tasks,
                 discTask, disc, call, last>>

\* a start() that does not await the ready latches
GatherSkipped ==
  /\ phase = "gather"
  /\ phase' = "started"
  /\ discTask' = TRUE
  /\ disc' = IdleDisc("sleep")
  /\ UNCHANGED <<lsn, app, cloud, envBudget, callbacks, devices, monitors, triggers, ready, tasks,
                 call, last>>

\* start(): gather of the ready latches is complete; the discovery loop is
\* created and start() returns
GatherDone ==
  /\ phase = "gather"
  /\ \A d \in DOMAIN ready : ready[d]
  /\ phase' = "started"
  /\ discTask' = TRUE
  /\ disc' = IdleDisc("sleep")
  /\ UNCHANGED <<lsn, app, cloud, envBudget, callbacks, devices, monitors, triggers, ready, tasks,
                 call, last>>

\* ------------------------------------------------------------------- vendor
\* the user adds a device to the account or removes one
EnvChange(i) ==
  /\ envBudget > 0
  /\ envBudget' = envBudget - 1
  /\ cloud' = IF i \in cloud THEN cloud \ {i} ELSE cloud \cup {i}
  /\ UNCHANGED <<lsn, app, callbacks, devices, monitors, triggers, ready, tasks,
                 discTask, disc, phase, call, last>>

\* ------------------------------------------------ a family that always fails
\* get_devices answered; for the broken family it answers only a list that is
\* not empty, and the bulk state query that follows is the call that fails
BrokenDevicesOk ==
  /\ disc.pc = "devices"
  /\ Families[disc.fam] = broken => Listing(cloud, broken) # <<>>
  /\ DevicesOk

\* bulk_query_device_state answered, for a family that is not the broken one
BrokenBulkOk ==
  /\ disc.pc = "bulk"
  /\ Families[disc.fam] # broken
  /\ BulkOk

\* get_devices or bulk_query_device_state of the broken family raised
FamilyFails ==
  /\ disc.pc \in {"devices", "bulk"}
  /\ Families[disc.fam] = broken
  /\ DiscoveryApiError

\* the listing changes while the discovery loop sleeps
EnvChangeAsleep(i) == disc.pc = "sleep" /\ EnvChange(i)

\* a vendor whose device dictionaries carry a "did" member of their own: the
\* first one repeats the endpoint id, the second one does not.  The step
\* reads dev_raw["did"] as the key and Device(**dev_raw) reads "endpointId".
AliasCatalog ==
  << [did |-> D1, endpointId |-> D1, friendlyName |-> <<"A", "c">>,
      productId |-> AC_GENERIC, family |-> "f1"],
     [did |-> D3, endpointId |-> D2, friendlyName |-> <<"a", "c", "2">>,
      productId |-> OTHER_PRODUCT, family |-> "f2"] >>

AliasListing(cl, f) ==
  SelectSeq(AliasCatalog,
            LAMBDA r : r.family = f /\ (\E i \in cl : AliasCatalog[i] = r))

\* get_devices returned the family's raw list of that vendor
AliasDevicesOk ==
  /\ disc.pc = "devices"
  /\ LET raw == AliasListing(cloud, Families[disc.fam])
         ids == disc.ids \cup {raw[i].endpointId : i \in DOMAIN raw}
     IN IF raw = <<>>
        THEN NextFamily(World, disc.seen, ids)
        ELSE /\ disc' = [disc EXCEPT !.pc = "bulk", !.raw = raw, !.ids = ids]
             /\ UNCHANGED <<devices, monitors, triggers, ready, tasks,
                            discTask, phase, last>>
  /\ UNCHANGED <<lsn, app, cloud, envBudget, callbacks, call>>

\* ------------------------------------------------------------ push listener
\* run_cloud_listener and the AuxCloudWebSocket objects it creates.  A
\* connection attempt is one ClientSession and its ws_connect; the attempt's
\* number names both the session and the connection.
INITIAL_RETRY_DELAY == 5
max_delay == 300
RECONNECT_RETRY_DELAY == 10

\* AuxCloudWebSocket.__init__; shut is a history field: set once the client's
\* __aexit__ has completed
NewClient ==
  [websocket |-> 0, session |-> 0, reconnect_task |-> 0, stop |-> FALSE,
   shut |-> FALSE]

NewAttempt(c, by, waited) ==
  [client |-> c, by |-> by, ws |-> "pending", session |-> "live",
   waited |-> waited, after |-> net.fails]

NewLTask(kind, c, a) ==
  [kind |-> kind, client |-> c, att |-> a, pc |-> "run", ret |-> "none",
   join |-> 0, cancelled |-> FALSE]

\* a task that has ended: nothing of it is read again but that it is done
Finished(task) ==
  [task EXCEPT !.pc = "done", !.att = 0, !.ret = "none", !.join = 0,
               !.cancelled = FALSE]

WsOpen(cl, at, c) == cl[c].websocket # 0 /\ at[cl[c].websocket].ws = "open"

\* _schedule_reconnect: the flag is cleared and a reconnect task created
\* unless one is already referenced
_schedule_reconnect(c, cl, lt) ==
  IF cl[c].reconnect_task = 0
  THEN [clients |-> [cl EXCEPT ![c].stop = FALSE,
                               ![c].reconnect_task = Len(lt) + 1],
        ltasks |-> Append(lt, NewLTask("reconnect", c, 0))]
  ELSE [clients |-> cl, ltasks |-> lt]

\* close_websocket, as the code between its awaits.  Each operator runs from
\* one point of the function to its next await (pc cw_join, cw_ws, cw_sess)
\* or to its return (pc ret).
CloseSession(c, cl, at, lt) ==
  LET s == cl[c].session
  IN IF s # 0 /\ at[s].session = "live"
     THEN [pc |-> "cw_sess", join |-> 0, clients |-> cl, ltasks |-> lt,
           atts |-> [at EXCEPT ![s].session = "closed",
                               ![s].ws = IF @ = "pending" THEN "aborted"
                                         ELSE IF @ = "open" THEN "closed"
                                         ELSE @]]
     ELSE [pc |-> "ret", join |-> 0, clients |-> cl, atts |-> at,
           ltasks |-> lt]

CloseSocket(c, cl, at, lt) ==
  IF WsOpen(cl, at, c)
  THEN [pc |-> "cw_ws", join |-> 0, clients |-> cl, ltasks |-> lt,
        atts |-> [at EXCEPT ![cl[c].websocket].ws = "closed"]]
  ELSE CloseSession(c, cl, at, lt)

\* p is the caller: 0 for run_cloud_listener, else the index of a task.  A
\* reconnect task that closes its own client cancels and awaits itself; the
\* CancelledError this raises is suppressed and the function goes on.
CloseBegin(c, p, cl, at, lt) ==
  LET cl1 == [cl EXCEPT ![c].stop = TRUE]
      r == cl[c].reconnect_task
  IN IF r = 0 THEN CloseSocket(c, cl1, at, lt)
     ELSE IF r = p \/ lt[r].pc = "done"
     THEN CloseSocket(c, [cl1 EXCEPT ![c].reconnect_task = 0], at, lt)
     ELSE [pc |-> "cw_join", join |-> r, clients |-> cl1, atts |-> at,
           ltasks |-> [lt EXCEPT ![r].cancelled = TRUE]]

CloseResume(pc, c, cl, at, lt) ==
  CASE pc = "cw_join" ->
         CloseSocket(c, [cl EXCEPT ![c].reconnect_task = 0], at, lt)
    [] pc = "cw_ws" ->
         CloseSession(c, [cl EXCEPT ![c].websocket = 0], at, lt)
    [] pc = "cw_sess" ->
         [pc |-> "ret", join |-> 0, atts |-> at, ltasks |-> lt,
          clients |-> [cl EXCEPT ![c].session = 0]]

\* an await of close_websocket can return
CloseCanResume(pc, join) ==
  /\ pc \in {"cw_join", "cw_ws", "cw_sess"}
  /\ pc = "cw_join" => ltasks[join].pc = "done"

\* initialize_websocket succeeded: the socket is stored and the listen task
\* created (the keep-alive loop it also starts is described further down)
Connected(c, a, cl, at, lt) ==
  [clients |-> [cl EXCEPT ![c].websocket = a],
   atts |-> [at EXCEPT ![a].ws = "open"],
   ltasks |-> Append(lt, NewLTask("listen", c, a))]

\* ws_connect failed: refused by the relay, or its session was closed under it
Refusal(a) ==
  /\ atts[a].ws \in {"pending", "aborted"}
  /\ atts[a].ws = "pending" => net.refusals > 0

Refused(a, at) == [at EXCEPT ![a].ws = IF @ = "pending" THEN "refused" ELSE @]

NetRefused(a) ==
  IF atts[a].ws = "pending"
  THEN [net EXCEPT !.fails = @ + 1, !.refusals = @ - 1]
  ELSE net

\* --- run_cloud_listener
\* where the listener continues after close_websocket returned
OuterAfterClose(ret, cl) ==
  CASE ret = "failed" -> [outer |-> [outer EXCEPT !.pc = "backoff"],
                          clients |-> cl]
    [] ret = "exit" ->
         [outer |-> [outer EXCEPT !.pc = "start", !.waited = 0],
          clients |-> [cl EXCEPT ![outer.client].shut = TRUE]]
    [] ret = "cancel" ->
         [outer |-> [outer EXCEPT !.pc = "done"],
          clients |-> [cl EXCEPT ![outer.client].shut = TRUE]]

OuterClose(res, ret) ==
  /\ atts' = res.atts
  /\ ltasks' = res.ltasks
  /\ IF res.pc = "ret"
     THEN /\ outer' = [OuterAfterClose(ret, res.clients).outer
                         EXCEPT !.ret = "none", !.join = 0]
          /\ clients' = OuterAfterClose(ret, res.clients).clients
     ELSE /\ outer' = [outer EXCEPT !.pc = res.pc, !.ret = ret,
                                    !.join = res.join]
          /\ clients' = res.clients

\* async with AuxCloudWebSocket(...): a new client, its session, ws_connect
OuterConnect ==
  /\ outer.pc = "start"
  /\ Len(atts) < MaxAttempts
  /\ clients' = Append(clients, [NewClient EXCEPT !.session = Len(atts) + 1])
  /\ atts' = Append(atts, NewAttempt(Len(clients) + 1, "outer", outer.waited))
  /\ outer' = [outer EXCEPT !.pc = "connecting", !.client = Len(clients) + 1,
                            !.att = Len(atts) + 1]
  /\ UNCHANGED <<coord, app, ltasks, net>>

\* __aenter__ returned: the delay is reset and the listener polls the socket
OuterConnected ==
  /\ outer.pc = "connecting"
  /\ atts[outer.att].ws = "pending"
  /\ LET res == Connected(outer.client, outer.att, clients, atts, ltasks)
     IN /\ clients' = res.clients
        /\ atts' = res.atts
        /\ ltasks' = res.ltasks
  /\ outer' = [outer EXCEPT !.pc = "poll", !.retry_delay = INITIAL_RETRY_DELAY]
  /\ net' = [net EXCEPT !.fails = 0]
  /\ UNCHANGED <<coord, app>>

\* __aenter__ raised: initialize_websocket closes the client and re-raises
OuterRefused ==
  /\ outer.pc = "connecting"
  /\ Refusal(outer.att)
  /\ net' = NetRefused(outer.att)
  /\ OuterClose(CloseBegin(outer.client, 0, clients,
                           Refused(outer.att, atts), ltasks), "failed")
  /\ UNCHANGED <<coord, app>>

OuterCloseStep ==
  /\ CloseCanResume(outer.pc, outer.join)
  /\ OuterClose(CloseResume(outer.pc, outer.client, clients, atts, ltasks),
                outer.ret)
  /\ UNCHANGED <<coord, app, net>>

\* except Exception: sleep(retry_delay) is over, the delay doubles
OuterBackoff ==
  /\ outer.pc = "backoff"
  /\ outer' = [outer EXCEPT !.pc = "start", !.waited = outer.retry_delay,
                 !.retry_delay = Min(outer.retry_delay * 2, max_delay)]
  /\ UNCHANGED <<coord, app, clients, atts, ltasks, net>>

\* the one-second poll finds the socket gone or closed: __aexit__
OuterPollExit ==
  /\ outer.pc = "poll"
  /\ ~WsOpen(clients, atts, outer.client)
  /\ OuterClose(CloseBegin(outer.client, 0, clients, atts, ltasks), "exit")
  /\ UNCHANGED <<coord, app, net>>

\* lifespan shutdown: listener_task.cancel().  Inside the async with the
\* CancelledError runs __aexit__; elsewhere it ends the task at once.
OuterCancel ==
  /\ outer.pc \in {"start", "backoff", "poll"}
  /\ IF outer.pc = "poll"
     THEN OuterClose(CloseBegin(outer.client, 0, clients, atts, ltasks),
                     "cancel")
     ELSE /\ outer' = [outer EXCEPT !.pc = "done"]
          /\ UNCHANGED <<clients, atts, ltasks>>
  /\ UNCHANGED <<coord, app, net>>

\* --- _reconnect
LTaskClose(t, res, ret, after) ==
  /\ atts' = res.atts
  /\ IF res.pc = "ret"
     THEN LET sch == IF ret = "rejected"
                     THEN _schedule_reconnect(ltasks[t].client, res.clients,
                                              res.ltasks)
                     ELSE [clients |-> res.clients, ltasks |-> res.ltasks]
          IN /\ clients' = sch.clients
             /\ ltasks' = [sch.ltasks EXCEPT
                            ![t] = IF after = "done" THEN Finished(@)
                                   ELSE [@ EXCEPT !.pc = after,
                                                  !.ret = "none",
                                                  !.join = 0]]
     ELSE /\ clients' = res.clients
          /\ ltasks' = [res.ltasks EXCEPT ![t].pc = res.pc, ![t].ret = ret,
                                          ![t].join = res.join]

IsTask(t, kind) ==
  /\ t \in DOMAIN ltasks
  /\ ltasks[t].kind = kind
  /\ ~ltasks[t].cancelled

\* while not self._stop_reconnect.is_set(): initialize_websocket()
ReconnectLoop(t) ==
  /\ IsTask(t, "reconnect")
  /\ ltasks[t].pc \in {"run", "sleep"}
  /\ LET c == ltasks[t].client
     IN IF clients[c].stop
        THEN /\ ltasks' = [ltasks EXCEPT ![t] = Finished(@)]
             /\ UNCHANGED <<clients, atts>>
        ELSE /\ Len(atts) < MaxAttempts
             /\ clients' = [clients EXCEPT ![c].session = Len(atts) + 1]
             /\ atts' = Append(atts, NewAttempt(c, "reconnect",
                                 IF ltasks[t].pc = "run" THEN 0
                                 ELSE RECONNECT_RETRY_DELAY))
             /\ ltasks' = [ltasks EXCEPT ![t].pc = "connecting",
                                         ![t].att = Len(atts) + 1]
  /\ UNCHANGED <<coord, app, outer, net>>

ReconnectConnected(t) ==
  /\ IsTask(t, "reconnect")
  /\ ltasks[t].pc = "connecting"
  /\ atts[ltasks[t].att].ws = "pending"
  /\ LET c == ltasks[t].client
         res == Connected(c, ltasks[t].att, clients, atts, ltasks)
     IN /\ clients' = [res.clients EXCEPT ![c].reconnect_task = 0]
        /\ atts' = res.atts
        /\ ltasks' = [res.ltasks EXCEPT ![t] = Finished(@)]
  /\ net' = [net EXCEPT !.fails = 0]
  /\ UNCHANGED <<coord, app, outer>>

ReconnectRefused(t) ==
  /\ IsTask(t, "reconnect")
  /\ ltasks[t].pc = "connecting"
  /\ Refusal(ltasks[t].att)
  /\ net' = NetRefused(ltasks[t].att)
  /\ LTaskClose(t, CloseBegin(ltasks[t].client, t, clients,
                              Refused(ltasks[t].att, atts), ltasks),
                "failed", "sleep")
  /\ UNCHANGED <<coord, app, outer>>

ReconnectCloseStep(t) ==
  /\ IsTask(t, "reconnect")
  /\ CloseCanResume(ltasks[t].pc, ltasks[t].join)
  /\ LTaskClose(t, CloseResume(ltasks[t].pc, ltasks[t].client, clients, atts,
                               ltasks), ltasks[t].ret, "sleep")
  /\ UNCHANGED <<coord, app, outer, net>>

\* the CancelledError of close_websocket's cancel() reaches the task at its
\* await; no handler of _reconnect or initialize_websocket catches it
ReconnectCancelled(t) ==
  /\ t \in DOMAIN ltasks
  /\ ltasks[t].cancelled
  /\ ltasks[t].pc # "done"
  /\ ltasks' = [ltasks EXCEPT ![t] = Finished(@)]
  /\ atts' = IF ltasks[t].pc = "connecting"
             THEN [atts EXCEPT ![ltasks[t].att].ws =
                                  IF @ = "pending" THEN "aborted" ELSE @]
             ELSE atts
  /\ UNCHANGED <<coord, app, outer, clients, net>>

\* --- _listen_to_websocket
\* the socket closed (lost, or closed by close_websocket): the loop ends and
\* the finally clause schedules a reconnect
ListenEnds(t) ==
  /\ IsTask(t, "listen")
  /\ ltasks[t].pc = "run"
  /\ atts[ltasks[t].att].ws = "closed"
  /\ LET sch == _schedule_reconnect(ltasks[t].client, clients, ltasks)
     IN /\ clients' = sch.clients
        /\ ltasks' = [sch.ltasks EXCEPT ![t] = Finished(@)]
  /\ UNCHANGED <<coord, app, outer, atts, net>>

\* net.deadAt before the relay has rejected any session
NoDeath == 0 - 1

\* an initk or pingk with a status other than 0: close, then reconnect.
\* net.deadAt keeps the number of attempts made so far, a history field.
ListenRejected(t) ==
  /\ IsTask(t, "listen")
  /\ ltasks[t].pc = "run"
  /\ atts[ltasks[t].att].ws = "open"
  /\ net.rejects > 0
  /\ net' = [net EXCEPT !.rejects = @ - 1, !.deadAt = Len(atts)]
  /\ LTaskClose(t, CloseBegin(ltasks[t].client, t, clients, atts, ltasks),
                "rejected", "done")
  /\ UNCHANGED <<coord, app, outer>>

ListenCloseStep(t) ==
  /\ IsTask(t, "listen")
  /\ CloseCanResume(ltasks[t].pc, ltasks[t].join)
  /\ LTaskClose(t, CloseResume(ltasks[t].pc, ltasks[t].client, clients, atts,
                               ltasks), ltasks[t].ret, "done")
  /\ UNCHANGED <<coord, app, outer, net>>

\* --- _keepalive_loop
\* Every successful initialize_websocket starts a keep-alive loop, and a loop
\* ends only when it finds the client's socket gone or closed; so a loop of
\* client c is running whenever c's socket is open, and the loops need no
\* state of their own.  Here the connection breaks while a ping is sent:
\* send_data raises and _keepalive_websocket schedules a reconnect.
KeepaliveFails(c) ==
  /\ c \in DOMAIN clients
  /\ WsOpen(clients, atts, c)
  /\ net.losses > 0
  /\ net' = [net EXCEPT !.losses = @ - 1]
  /\ atts' = [atts EXCEPT ![clients[c].websocket].ws = "closed"]
  /\ LET sch == _schedule_reconnect(c, clients, ltasks)
     IN /\ clients' = sch.clients
        /\ ltasks' = sch.ltasks
  /\ UNCHANGED <<coord, app, outer>>

\* --- the frames of a connection
\* ka.loops: every _keepalive_loop task created, with its client and position;
\* ka.wire: per connection attempt the frames sent and the initk received, in
\* order; a ping names the loop that sent it.
NoKeepalive == [loops |-> <<>>, wire |-> [a \in {} |-> <<>>]]

Frame(f, by) == [f |-> f, by |-> by]

Wire(a) == IF a \in DOMAIN ka.wire THEN ka.wire[a] ELSE <<>>

Sent(a, f) == \E i \in DOMAIN Wire(a) : Wire(a)[i].f = f

PingsBy(k) ==
  Cardinality({<<a, i>> \in (DOMAIN ka.wire) \X (1..(2 * MaxPings + 2)) :
                 i \in DOMAIN ka.wire[a] /\ ka.wire[a][i] = Frame("ping", k)})

\* initialize_websocket after ws_connect returned: the init frame is sent and
\* the keep-alive loop created
KeepaliveStart(a) ==
  /\ a \in DOMAIN atts
  /\ atts[a].ws = "open"
  /\ ~Sent(a, "init")
  /\ ka' = [loops |-> Append(ka.loops, [client |-> atts[a].client, pc |-> "run"]),
            wire |-> (a :> Append(Wire(a), Frame("init", 0))) @@ ka.wire]
  /\ UNCHANGED <<lsn, coord, mgr, bcast, clock, broken, hub>>

\* _keepalive_loop runs for the first time or its sleep(10) is over: while the
\* client's socket is there and open, a ping is sent on it and the loop sleeps
\* again; otherwise the loop ends
_keepalive_loop(k) ==
  /\ k \in DOMAIN ka.loops
  /\ ka.loops[k].pc \in {"run", "sleep"}
  /\ LET c == ka.loops[k].client
         a == clients[c].websocket
     IN IF WsOpen(clients, atts, c)
        THEN /\ PingsBy(k) < MaxPings
             /\ ka' = [loops |-> [ka.loops EXCEPT ![k].pc = "sleep"],
                       wire |-> (a :> Append(Wire(a), Frame("ping", k))) @@ ka.wire]
        ELSE ka' = [ka EXCEPT !.loops[k].pc = "done"]
  /\ UNCHANGED <<lsn, coord, mgr, bcast, clock, broken, hub>>

\* the listen task receives the relay's initk with status 0
RecvInitk(a) ==
  /\ a \in DOMAIN atts
  /\ atts[a].ws = "open"
  /\ Sent(a, "init")
  /\ ~Sent(a, "initk")
  /\ ka' = [ka EXCEPT !.wire[a] = Append(@, Frame("initk", 0))]
  /\ UNCHANGED <<lsn, coord, mgr, bcast, clock, broken, hub>>

\* --- vendor relay
ConnLost(a) ==
  /\ a \in DOMAIN atts
  /\ atts[a].ws = "open"
  /\ net.losses > 0
  /\ net' = [net EXCEPT !.losses = @ - 1]
  /\ atts' = [atts EXCEPT ![a].ws = "closed"]
  /\ UNCHANGED <<coord, app, outer, clients, ltasks>>

\* ------------------------------------------------------------ DeviceManager
\* DeviceManager and the AuxCloudAPI client it owns.  time.time() is read in
\* whole seconds; the present lies further from the epoch than any TTL.
Epoch == 1000
TickSeconds == 30

\* the ttl arguments of the callers (webapp/routes/devices.py) and the default
TTLs == {0, 30, 60}

\* None; the strings the vendor issues are not empty
None == <<>>

\* the values of a login answered with status 0
LoginOk == [loginsession |-> <<"s">>, userid |-> <<"u">>]

IdleOp == [name |-> "none", pc |-> "idle", res |-> "none"]

\* DeviceManager.__init__ and AuxCloudAPI.__init__.  stale: invalidate_cache
\* has been called and no get_devices_cached call has begun since
NewManager ==
  [devices |-> <<>>, _cache_timestamp |-> 0, _cache_ttl |-> 60,
   loginsession |-> None, userid |-> None, op |-> IdleOp, stale |-> FALSE]

\* AuxCloudAPI.is_logged_in
is_logged_in(m) == m.loginsession # None /\ m.userid # None

\* the API exceptions a vendor call raises
ApiErrors == {"ServerBusyError", "DeviceOfflineError", "DataError",
              "AuthenticationError", "AuxAPIError"}

\* the except clauses of _wrap_api_call
_wrap_api_call(e) ==
  CASE e = "ServerBusyError" -> "ServerBusy"
    [] e = "DeviceOfflineError" -> "ClimateHubError"
    [] e = "DataError" -> "ClimateHubError"
    [] e = "AuthenticationError" -> "AuthenticationError"
    [] e = "AuxAPIError" -> "ClimateHubError"

\* the manager is used by one caller at a time, except that invalidate_cache
\* and the clock do not wait for the call in flight
ManagerFree == mgr.op.pc # "inflight"

\* DeviceManager.login up to the await of the login request
ManagerLogin ==
  /\ ManagerFree
  /\ mgr' = [mgr EXCEPT !.op = [name |-> "login", pc |-> "inflight", res |-> "none",
                                answer |-> "none",
                                was |-> [loginsession |-> mgr.loginsession,
                                         userid |-> mgr.userid]]]
  /\ UNCHANGED <<lsn, coord, bcast, clock, broken, ka, hub>>

\* what the vendor answers to a login: status 0, another status, no answer
LoginAnswers == {"status0", "refused", "network"}

\* AuxCloudAPI.login after the request: the answer with status 0 is stored;
\* any other answer raises AuxAPIError, and so does a failed request
\* (_make_request)
login(m, answer) ==
  IF answer = "status0"
  THEN [m EXCEPT !.loginsession = LoginOk.loginsession, !.userid = LoginOk.userid,
                 !.op.pc = "done", !.op.res = "ok", !.op.answer = answer]
  ELSE [m EXCEPT !.op.pc = "done", !.op.res = _wrap_api_call("AuxAPIError"),
                 !.op.answer = answer]

LoginReturn(answer) ==
  /\ mgr.op.pc = "inflight" /\ mgr.op.name = "login"
  /\ mgr' = login(mgr, answer)
  /\ UNCHANGED <<lsn, coord, bcast, clock, broken, ka, hub>>

\* --- the device cache
\* ttl=None, as an integer no caller passes
NoTtl == 0 - 1

\* the list refresh_devices builds: Device(**dev) for every listed device,
\* family by family, with the state of the bulk query (0 when the answer has
\* no entry for the device) and the time of the refresh
Refreshed(cl, st) ==
  LET raw == Listing(cl, "f1") \o Listing(cl, "f2")
  IN [i \in DOMAIN raw |->
        [NewDevice(raw[i], IF raw[i].endpointId \in DOMAIN st
                           THEN st[raw[i].endpointId] ELSE OFFLINE)
           EXCEPT !.last_updated = 1]]

\* the test of get_devices_cached: the cached list is returned
CacheHit(m, ttl, now) == m.devices # <<>> /\ now - m._cache_timestamp < ttl

\* get_devices_cached up to its return of the cached list or to the await of
\* refresh_devices
GetDevicesCached(arg) ==
  /\ ManagerFree
  /\ LET ttl == IF arg # NoTtl THEN arg ELSE mgr._cache_ttl
         now == clock
         hit == CacheHit(mgr, ttl, now)
     IN mgr' = [mgr EXCEPT
                  !.stale = FALSE,
                  !.op = [name |-> "get_devices_cached",
                          pc |-> IF hit THEN "done" ELSE "inflight",
                          res |-> IF hit THEN "cached" ELSE "none",
                          ttl |-> ttl, now |-> now,
                          age |-> now - mgr._cache_timestamp,
                          cached |-> Len(mgr.devices),
                          stale |-> mgr.stale]]
  /\ UNCHANGED <<lsn, coord, bcast, clock, broken, ka, hub>>

\* refresh_devices returned: the list it stored, then the timestamp
RefreshOk ==
  /\ mgr.op.pc = "inflight" /\ mgr.op.name = "get_devices_cached"
  /\ \E S \in SUBSET {Catalog[i].endpointId : i \in cloud} :
       \E st \in [S -> {OFFLINE, ONLINE}] :
         mgr' = [mgr EXCEPT !.devices = Refreshed(cloud, st),
                            !._cache_timestamp = mgr.op.now,
                            !.op.pc = "done", !.op.res = "refreshed"]
  /\ UNCHANGED <<lsn, coord, bcast, clock, broken, ka, hub>>

\* a vendor call of refresh_devices raised
RefreshError(e) ==
  /\ mgr.op.pc = "inflight" /\ mgr.op.name = "get_devices_cached"
  /\ mgr' = [mgr EXCEPT !.op.pc = "done", !.op.res = _wrap_api_call(e)]
  /\ UNCHANGED <<lsn, coord, bcast, clock, broken, ka, hub>>

\* invalidate_cache: a plain method, callable while a refresh is awaited
InvalidateCache ==
  /\ mgr' = [mgr EXCEPT !._cache_timestamp = 0, !.stale = TRUE]
  /\ UNCHANGED <<lsn, coord, bcast, clock, broken, ka, hub>>

\* time passes
Tick ==
  /\ clock < Epoch + MaxTicks * TickSeconds
  /\ clock' = clock + TickSeconds
  /\ UNCHANGED <<lsn, coord, mgr, bcast, broken, ka, hub>>

\* --- parse_control_response
\* an ErrorResponse payload is a dict that may lack "type" and "status"
ErrorTypes == {"ENDPOINT_UNREACHABLE", "INVALID_REQUEST"}
ErrorStatuses == {0 - 49002, 0 - 1005, 0 - 1, 0, 1}

ErrorPayloads ==
  {[type |-> t, status |-> s] : t \in ErrorTypes, s \in ErrorStatuses}
  \cup {[type |-> t] : t \in ErrorTypes}
  \cup {[status |-> s] : s \in ErrorStatuses}
  \cup {NoParams}

\* dict.get with a default
GetOr(p, k, default) == IF k \in DOMAIN p THEN p[k] ELSE default

ApiError(error, error_type, error_status) ==
  [error |-> error, details |-> [type |-> error_type, status |-> error_status]]

\* the type tested before the status
parse_error_response_type_first(error_payload) ==
  LET error_type == GetOr(error_payload, "type", "UNKNOWN")
      error_status == GetOr(error_payload, "status", 0)
  IN IF error_type = "ENDPOINT_UNREACHABLE"
     THEN ApiError("DeviceOfflineError", error_type, error_status)
     ELSE IF error_status = 0 - 49002
     THEN ApiError("ServerBusyError", error_type, error_status)
     ELSE IF error_status = 0 - 1005
     THEN ApiError("DataError", error_type, error_status)
     ELSE ApiError("AuxAPIError", error_type, error_status)

\* parse_control_response on an ErrorResponse: the exception it raises
parse_error_response(error_payload) ==
  LET error_type == GetOr(error_payload, "type", "UNKNOWN")
      error_status == GetOr(error_payload, "status", 0)
  IN IF error_status = 0 - 49002
     THEN ApiError("ServerBusyError", error_type, error_status)
     ELSE IF error_status = 0 - 1005
     THEN ApiError("DataError", error_type, error_status)
     ELSE IF error_type = "ENDPOINT_UNREACHABLE"
     THEN ApiError("DeviceOfflineError", error_type, error_status)
     ELSE ApiError("AuxAPIError", error_type, error_status)

\* ----------------------------------------------------------- protocol codec
\* the "header" member of an event: absent, without a name, or named
EventHeaders == {[name |-> "ErrorResponse"], [name |-> "Response"], NoParams}

\* the "payload" member of an event: an error payload, or a status and the
\* encoded data of a result, either of them absent
EventPayloads ==
  ErrorPayloads
  \cup {[status |-> s, data |-> "json"] : s \in ErrorStatuses}
  \cup {[k \in {"data"} |-> "json"]}

Events ==
  {[header |-> h, payload |-> p] : h \in EventHeaders, p \in EventPayloads}
  \cup {[k \in {"payload"} |-> p] : p \in EventPayloads}
  \cup {[k \in {"header"} |-> h] : h \in EventHeaders}
  \cup {NoParams}

\* the decoded JSON bodies the vendor's answers are parsed from
Responses == {[k \in {"event"} |-> e] : e \in Events} \cup {NoParams}

\* an exception that is no AuxAPIError, and a normal return
Raised(error) == [error |-> error, details |-> NoParams]

Parsed == [error |-> "none", details |-> NoParams]

\* parse_state_response
parse_state_response(response) ==
  IF /\ "event" \in DOMAIN response
     /\ "payload" \in DOMAIN response.event
     /\ "status" \in DOMAIN response.event.payload
     /\ response.event.payload.status = 0
  THEN Parsed
  ELSE Raised("ValueError")

\* parse_control_response
parse_control_response(response) ==
  IF "event" \notin DOMAIN response \/ "payload" \notin DOMAIN response.event
  THEN Raised("ValueError")
  ELSE LET event == response.event
           payload == event.payload
       IN IF GetOr(GetOr(event, "header", NoParams), "name", "none") = "ErrorResponse"
          THEN parse_error_response(payload)
          ELSE IF "data" \notin DOMAIN payload
          THEN Raised("ValueError")
          ELSE Parsed

ParseStateResponse(response) ==
  /\ call' = [pc |-> "state_response", arg |-> response,
              v |-> parse_state_response(response)]
  /\ UNCHANGED <<lsn, app, cloud, envBudget, callbacks, devices, monitors, triggers,
                 ready, tasks, discTask, disc, phase, last>>

ParseControlResponse(response) ==
  /\ call' = [pc |-> "control_response", arg |-> response,
              v |-> parse_control_response(response)]
  /\ UNCHANGED <<lsn, app, cloud, envBudget, callbacks, devices, monitors, triggers,
                 ready, tasks, discTask, disc, phase, last>>

\* --- control through the manager
\* the control operations of the manager with the arguments tried; the
\* command line parses the temperature as an int, in degrees
ManagerInputs ==
  {[op |-> "set_temperature", val |-> t] : t \in {22, 31}}
  \cup {[op |-> "set_mode", val |-> m] :
          m \in {<<"C", "o", "o", "l">>, <<"w", "a", "r", "m">>}}

\* the validation of each operation
ManagerValidate(inp) ==
  CASE inp.op = "set_temperature" -> validate_temperature(inp.val * 10)
    [] inp.op = "set_mode" -> validate_mode(inp.val)

\* the params each operation sends once its argument is valid
ManagerParams(inp) ==
  CASE inp.op = "set_temperature" -> [k \in {"temp"} |-> inp.val]
    [] inp.op = "set_mode" -> validate_mode(inp.val).params

ManagerOp(inp, q, pc, res, eid, params) ==
  [name |-> inp.op, pc |-> pc, res |-> res, inp |-> inp, q |-> q, eid |-> eid,
   params |-> params, raised |-> NoParams]

\* set_temperature and set_mode up to the await of set_device_params: the
\* lookup, the cached online flag, the validation
ManagerControl(inp, q) ==
  /\ ManagerFree
  /\ LET i == find_device(mgr.devices, q)
         v == ManagerValidate(inp)
     IN mgr' = [mgr EXCEPT !.op =
          IF i = 0 THEN ManagerOp(inp, q, "done", "DeviceNotFound", NoDid, NoParams)
          ELSE IF ~is_online(mgr.devices[i])
          THEN ManagerOp(inp, q, "done", "DeviceOffline", NoDid, NoParams)
          ELSE IF ~v.ok
          THEN ManagerOp(inp, q, "done", "InvalidParameter", NoDid, NoParams)
          ELSE ManagerOp(inp, q, "inflight", "none", mgr.devices[i].endpoint_id,
                         ManagerParams(inp))]
  /\ UNCHANGED <<lsn, coord, bcast, clock, broken, ka, hub>>

IsControl(op) == op.name \in {"set_temperature", "set_mode"}

\* set_device_params returned
ManagerControlOk ==
  /\ mgr.op.pc = "inflight" /\ IsControl(mgr.op)
  /\ mgr' = [mgr EXCEPT !.op.pc = "done", !.op.res = "ok"]
  /\ UNCHANGED <<lsn, coord, bcast, clock, broken, ka, hub>>

\* the vendor answered with an ErrorResponse: parse_control_response raises,
\* _wrap_api_call maps
ManagerControlError(error_payload) ==
  /\ mgr.op.pc = "inflight" /\ IsControl(mgr.op)
  /\ LET e == parse_error_response(error_payload)
     IN mgr' = [mgr EXCEPT !.op.pc = "done", !.op.res = _wrap_api_call(e.error),
                           !.op.raised = [payload |-> error_payload, e |-> e]]
  /\ UNCHANGED <<lsn, coord, bcast, clock, broken, ka, hub>>

\* --------------------------------------------------------- on_cloud_message
\* JSON values of a decoded message: null, a string, an object
Null == [json |-> "null"]
Str(s) == [json |-> "str", v |-> s]
Obj(d) == [json |-> "obj", v |-> d]

\* bool(x)
Truthy(x) ==
  CASE x.json = "null" -> FALSE
    [] x.json = "str" -> x.v # <<>>
    [] x.json = "obj" -> DOMAIN x.v # {}

\* the "data" members tried: an object with or without "endpointId", null
DataValues ==
  {Obj([endpointId |-> Str(id)]) : id \in {D1, D2, <<>>}}
  \cup {Obj([endpointId |-> Null]), Obj([fan |-> Str(<<"1">>)]), Obj(NoParams), Null}

\* the messages _listen_to_websocket hands to its listeners: decoded objects
\* whose msgtype is neither initk nor pingk
CloudMessages ==
  {[msgtype |-> Str(t), data |-> d] : t \in {<<"push">>, <<"ntfy">>}, d \in DataValues}
  \cup {[msgtype |-> Str(t)] : t \in {<<"push">>, <<"ntfy">>}}
  \cup {[data |-> d] : d \in DataValues}

\* what on_cloud_message does with a message: "trigger" with the endpoint id,
\* "broadcast", or "raise" when .get is called on a value that has none
on_cloud_message(data) ==
  LET msg_type == GetOr(data, "msgtype", Null)
  IN IF msg_type = Str(<<"push">>)
     THEN LET inner == GetOr(data, "data", Obj(NoParams))
          IN IF inner.json # "obj" THEN [do |-> "raise", id |-> NoDid]
             ELSE LET endpoint_id == GetOr(inner.v, "endpointId", Null)
                  IN IF Truthy(endpoint_id)
                     THEN [do |-> "trigger", id |-> endpoint_id.v]
                     ELSE [do |-> "broadcast", id |-> NoDid]
     ELSE [do |-> "broadcast", id |-> NoDid]

\* nothing forwarded yet
NoBroadcast == [msg |-> NoParams, do |-> "none", out |-> <<>>]

\* a message arrives from the relay and _notify_listeners awaits
\* on_cloud_message, whose exception it logs; out is what
\* connection_manager.broadcast was called with
OnCloudMessage(msg) ==
  /\ phase = "started"
  /\ LET r == on_cloud_message(msg)
     IN /\ triggers' = IF r.do = "trigger" THEN trigger_update(triggers, r.id)
                       ELSE triggers
        /\ bcast' = [msg |-> msg, do |-> r.do,
                     out |-> IF r.do = "broadcast" THEN <<msg>> ELSE <<>>]
  /\ UNCHANGED <<lsn, mgr, clock, broken, ka, hub, cloud, envBudget, callbacks, devices, monitors,
                 ready, tasks, discTask, disc, phase, call, last>>

\* -------------------------------------------------------- ConnectionManager
\* the broadcast in progress or the last one that returned: i is the index of
\* the list iterator, cur the socket send_text is awaited for, failed the
\* local list "disconnected"; got, start, gone and joined are history: the
\* sockets the message was sent to, those in the list when the loop began,
\* and those removed from and added to the list while it ran
NoBroadcastCall ==
  [pc |-> "idle", i |-> 0, cur |-> 0, failed |-> <<>>, got |-> {}, start |-> {},
   gone |-> {}, joined |-> {}]

\* ConnectionManager.__init__; ever holds the sockets that have connected
NewConnectionManager ==
  [active_connections |-> <<>>, ever |-> {}, b |-> NoBroadcastCall]

Elems(seq) == {seq[i] : i \in DOMAIN seq}

\* list.remove of a value that occurs at most once
Remove(seq, x) == SelectSeq(seq, LAMBDA y : y # x)

\* ConnectionManager.disconnect
disconnect(active, websocket) ==
  IF websocket \in Elems(active) THEN Remove(active, websocket) ELSE active

RECURSIVE DisconnectAll(_, _)
DisconnectAll(active, conns) ==
  IF conns = <<>> THEN active
  ELSE DisconnectAll(disconnect(active, Head(conns)), Tail(conns))

HubFrame == UNCHANGED <<lsn, coord, mgr, bcast, clock, broken, ka>>

\* ConnectionManager.connect: accept() returned and the socket is appended
HubConnect(c) ==
  /\ c \notin hub.ever
  /\ hub' = [hub EXCEPT !.active_connections = Append(@, c),
                        !.ever = @ \cup {c},
                        !.b.joined = IF hub.b.pc = "send" THEN @ \cup {c} ELSE @]
  /\ HubFrame

\* websocket_endpoint: receive_text raised WebSocketDisconnect
HubDisconnect(c) ==
  /\ c \in Elems(hub.active_connections)
  /\ hub' = [hub EXCEPT !.active_connections = disconnect(@, c),
                        !.b.gone = IF hub.b.pc = "send" THEN @ \cup {c} ELSE @]
  /\ HubFrame

\* the for statement asks the list iterator for its next element: the element
\* at the iterator's index in the list as it is now, or the end of the loop,
\* after which the sockets in "disconnected" are removed
NextConnection(h) ==
  IF h.b.i < Len(h.active_connections)
  THEN [h EXCEPT !.b.pc = "send", !.b.i = @ + 1,
                 !.b.cur = h.active_connections[h.b.i + 1]]
  ELSE [h EXCEPT !.b.pc = "done", !.b.cur = 0,
                 !.active_connections = DisconnectAll(@, h.b.failed)]

\* broadcast is called: with no socket it returns at once; otherwise the loop
\* begins and the first send_text is awaited
Broadcast ==
  /\ hub.b.pc \in {"idle", "done"}
  /\ hub.active_connections # <<>>
  /\ hub' = NextConnection([hub EXCEPT
               !.b = [NoBroadcastCall EXCEPT
                        !.start = Elems(hub.active_connections)]])
  /\ HubFrame

\* send_text returned or raised; the loop goes on
SendReturns(ok) ==
  /\ hub.b.pc = "send"
  /\ hub' = NextConnection(
              IF ok THEN [hub EXCEPT !.b.got = @ \cup {hub.b.cur}]
              ELSE [hub EXCEPT !.b.failed = Append(@, hub.b.cur)])
  /\ HubFrame

\* ------------------------------------------------------------ specification
EmptyMap == [k \in {} |-> 0]

\* the subscriber the web application registers before it starts the
\* coordinator
Registered == <<Callback(FALSE)>>

\* the coordinator after construction, with any vendor
Fresh ==
  /\ cloud \in SUBSET (DOMAIN Catalog)
  /\ envBudget = EnvBudget
  /\ monitors = EmptyMap
  /\ triggers = EmptyMap
  /\ ready = EmptyMap
  /\ tasks = <<>>
  /\ discTask = FALSE
  /\ disc = IdleDisc("idle")
  /\ phase = "new"
  /\ call = IdleCall
  /\ last = [done |-> FALSE, ids |-> {}, apiErr |-> FALSE]
  /\ outer = [pc |-> "start", ret |-> "none", join |-> 0, client |-> 0,
              att |-> 0, retry_delay |-> INITIAL_RETRY_DELAY, waited |-> 0]
  /\ clients = <<>>
  /\ atts = <<>>
  /\ ltasks = <<>>
  /\ net = [fails |-> 0, refusals |-> MaxRefusals, losses |-> MaxLosses,
            rejects |-> MaxRejects, deadAt |-> NoDeath]
  /\ mgr = NewManager
  /\ bcast = NoBroadcast
  /\ clock = Epoch
  /\ ka = NoKeepalive
  /\ hub = NewConnectionManager

\* the coordinator after construction; the vendor has no broken family
Idle == Fresh /\ broken = "none"

Constructed == Idle /\ devices = <<>>

Init == Constructed /\ callbacks = Registered

\* The lifecycle: start(), the discovery loop, the monitors, stop(), and a
\* vendor whose device listing changes.
Next ==
  \/ Start
  \/ DiscoveryWake
  \/ FamiliesOk
  \/ DevicesOk
  \/ BulkOk
  \/ DiscoveryApiError
  \/ GatherDone
  \/ \E t \in DOMAIN tasks : MonitorFirst(t)
  \/ \E t \in DOMAIN tasks : MonitorWake(t)
  \/ \E t \in DOMAIN tasks : MonitorRetry(t)
  \/ \E t \in DOMAIN tasks : FetchStdOk(t)
  \/ \E t \in DOMAIN tasks : FetchSpcOk(t)
  \/ \E t \in DOMAIN tasks : FetchError(t)
  \/ \E t \in DOMAIN tasks : CancelDeliver(t)
  \/ Stop
  \/ StopReturn
  \/ \E i \in DOMAIN Catalog : EnvChange(i)

Spec == Init /\ [][Next]_vars

\* Triggers: an account with the one air conditioner, whose monitor is woken
\* by cloud pushes and by the timer while discovery refreshes the online flag
\* and the device may leave the account.
InitTrigger == Init /\ cloud = {1}

NextTrigger ==
  \/ Start
  \/ DiscoveryWake
  \/ FamiliesOk
  \/ DevicesOk
  \/ BulkOk
  \/ DiscoveryApiError
  \/ GatherDone
  \/ \E t \in DOMAIN tasks : MonitorFirst(t)
  \/ \E t \in DOMAIN tasks : MonitorWake(t)
  \/ \E t \in DOMAIN tasks : MonitorRetry(t)
  \/ \E t \in DOMAIN tasks : FetchStdOk(t)
  \/ \E t \in DOMAIN tasks : FetchSpcOk(t)
  \/ \E t \in DOMAIN tasks : FetchError(t)
  \/ \E t \in DOMAIN tasks : CancelDeliver(t)
  \/ \E id \in {D1, D2, D3} : PushTrigger(id)
  \/ EnvChange(1)

SpecTrigger == InitTrigger /\ [][NextTrigger]_vars

\* Control: callers issue control operations, one at a time, against an
\* account with the one air conditioner while the coordinator runs, the online
\* flag changes and the device may leave the account.  The vendor's read side
\* (discovery, get-params) answers every request.
InitControl == Init /\ cloud = {1}

NextControl ==
  \/ Start
  \/ DiscoveryWake
  \/ FamiliesOk
  \/ DevicesOk
  \/ BulkOk
  \/ GatherDone
  \/ \E t \in DOMAIN tasks : MonitorFirst(t)
  \/ \E t \in DOMAIN tasks : MonitorWake(t)
  \/ \E t \in DOMAIN tasks : FetchStdOk(t)
  \/ \E t \in DOMAIN tasks : FetchSpcOk(t)
  \/ \E t \in DOMAIN tasks : CancelDeliver(t)
  \/ \E inp \in ControlInputs, q \in Queries : Control(inp, q)
  \/ \E o \in ApiOutcomes : ControlReturn(o)
  \/ EnvChange(1)

SpecControl == InitControl /\ [][NextControl]_vars

\* The manager: a caller logs in, lists the devices through the cache and
\* controls them, one call at a time, while time passes, the cache may be
\* invalidated and the vendor answers each request or fails it.  The account
\* holds the first two devices.
InitManager == Init /\ cloud = {1, 2}

NextManager ==
  \/ ManagerLogin
  \/ \E answer \in LoginAnswers : LoginReturn(answer)
  \/ \E arg \in TTLs \cup {NoTtl} : GetDevicesCached(arg)
  \/ RefreshOk
  \/ \E e \in ApiErrors : RefreshError(e)
  \/ InvalidateCache
  \/ Tick
  \/ \E inp \in ManagerInputs, q \in Queries : ManagerControl(inp, q)
  \/ ManagerControlOk
  \/ \E error_payload \in ErrorPayloads : ManagerControlError(error_payload)

SpecManager == InitManager /\ [][NextManager]_vars

\* Forwarding: the coordinator runs on an account with the one air
\* conditioner while the relay delivers messages to on_cloud_message.
InitForward == Init /\ cloud = {1}

NextForward ==
  \/ Start
  \/ DiscoveryWake
  \/ FamiliesOk
  \/ DevicesOk
  \/ BulkOk
  \/ GatherDone
  \/ \E t \in DOMAIN tasks : MonitorFirst(t)
  \/ \E t \in DOMAIN tasks : MonitorWake(t)
  \/ \E t \in DOMAIN tasks : FetchStdOk(t)
  \/ \E t \in DOMAIN tasks : FetchSpcOk(t)
  \/ \E msg \in CloudMessages : OnCloudMessage(msg)

SpecForward == InitForward /\ [][NextForward]_vars

\* Failures: the one air conditioner is monitored for a subscriber that
\* raises, every vendor call may fail, and the monitor is cancelled by the
\* removal of the device or by stop().
InitSurvive == Constructed /\ cloud = {1} /\ callbacks = <<Callback(TRUE)>>

NextSurvive ==
  \/ Start
  \/ DiscoveryWake
  \/ FamiliesOk
  \/ DevicesOk
  \/ BulkOk
  \/ DiscoveryApiError
  \/ GatherDone
  \/ \E t \in DOMAIN tasks : MonitorFirst(t)
  \/ \E t \in DOMAIN tasks : MonitorWake(t)
  \/ \E t \in DOMAIN tasks : MonitorRetry(t)
  \/ \E t \in DOMAIN tasks : FetchStdOk(t)
  \/ \E t \in DOMAIN tasks : FetchSpcOk(t)
  \/ \E t \in DOMAIN tasks : FetchError(t)
  \/ \E t \in DOMAIN tasks : CancelDeliver(t)
  \/ Stop
  \/ StopReturn
  \/ EnvChange(1)

SpecSurvive == InitSurvive /\ [][NextSurvive]_vars

\* A broken family: the account holds the air conditioner in the first
\* family and the second device in the other one; every request for the
\* device list or the bulk state of one of the two families fails, in every
\* step, and the listing changes between steps only.
InitBroken ==
  /\ Fresh
  /\ devices = <<>>
  /\ callbacks = Registered
  /\ cloud \in SUBSET {1, 2}
  /\ broken \in {Families[i] : i \in DOMAIN Families}

NextBroken ==
  \/ Start
  \/ DiscoveryWake
  \/ FamiliesOk
  \/ BrokenDevicesOk
  \/ BrokenBulkOk
  \/ FamilyFails
  \/ GatherDone
  \/ \E t \in DOMAIN tasks : MonitorFirst(t)
  \/ \E t \in DOMAIN tasks : MonitorWake(t)
  \/ \E t \in DOMAIN tasks : FetchStdOk(t)
  \/ \E t \in DOMAIN tasks : FetchSpcOk(t)
  \/ \E i \in {1, 2} : EnvChangeAsleep(i)

SpecBroken == InitBroken /\ [][NextBroken]_vars

\* Own "did" members: the coordinator is started against the vendor of
\* AliasCatalog, which lists any of its two devices; discovery repeats and the
\* monitors refresh.
InitAlias ==
  /\ Constructed
  /\ callbacks = Registered
  /\ cloud \in SUBSET {1, 2}

NextAlias ==
  \/ Start
  \/ DiscoveryWake
  \/ FamiliesOk
  \/ AliasDevicesOk
  \/ BulkOk
  \/ GatherDone
  \/ \E t \in DOMAIN tasks : MonitorFirst(t)
  \/ \E t \in DOMAIN tasks : MonitorWake(t)
  \/ \E t \in DOMAIN tasks : FetchStdOk(t)
  \/ \E t \in DOMAIN tasks : FetchSpcOk(t)

SpecAlias == InitAlias /\ [][NextAlias]_vars

\* Keep-alive: the listener connects, the relay answers the init, drops
\* connections, and the clients reconnect on their own, while the keep-alive
\* loops send their pings.  The relay refuses and rejects nothing.
InitKeepalive == Init /\ cloud = {1}

NextKeepalive ==
  \/ OuterConnect
  \/ OuterConnected
  \/ OuterPollExit
  \/ OuterCloseStep
  \/ \E t \in 1..(2 * MaxAttempts) : ReconnectLoop(t)
  \/ \E t \in 1..(2 * MaxAttempts) : ReconnectConnected(t)
  \/ \E t \in 1..(2 * MaxAttempts) : ReconnectCancelled(t)
  \/ \E t \in 1..(2 * MaxAttempts) : ListenEnds(t)
  \/ \E a \in 1..MaxAttempts : ConnLost(a)
  \/ \E a \in 1..MaxAttempts : KeepaliveStart(a)
  \/ \E k \in 1..MaxAttempts : _keepalive_loop(k)
  \/ \E a \in 1..MaxAttempts : RecvInitk(a)

SpecKeepalive == InitKeepalive /\ [][NextKeepalive]_vars

\* A slow subscriber: the one air conditioner is monitored for two subscribers
\* that are coroutine functions, the first of them slow.  Every vendor call
\* returns, every wait_for returns, every task that can run is run and the
\* callback of every subscriber but the slow one returns; the slow one's
\* callback may return or not.
InitSlow ==
  /\ Constructed
  /\ cloud = {1}
  /\ callbacks = <<Subscriber(TRUE), Subscriber(FALSE)>>

NextSlow ==
  \/ Start
  \/ DiscoveryWake
  \/ FamiliesOk
  \/ DevicesOk
  \/ BulkOk
  \/ GatherDone
  \/ \E t \in DOMAIN tasks : MonitorFirst(t)
  \/ \E t \in DOMAIN tasks : MonitorWake(t)
  \/ \E t \in DOMAIN tasks : FetchStdOk(t)
  \/ \E t \in DOMAIN tasks : FetchSpcOkAwaited(t)
  \/ \E t \in DOMAIN tasks : CallbackReturns(t, FALSE)
  \/ \E t \in DOMAIN tasks : CallbackReturns(t, TRUE)
  \/ PushTrigger(D1)

FairSlow ==
  /\ WF_vars(FamiliesOk \/ DevicesOk \/ BulkOk)
  /\ WF_vars(GatherDone)
  /\ WF_vars(1 \in DOMAIN tasks /\ MonitorFirst(1))
  /\ WF_vars(1 \in DOMAIN tasks /\ MonitorWake(1))
  /\ WF_vars(1 \in DOMAIN tasks /\ (FetchStdOk(1) \/ FetchSpcOkAwaited(1)))
  /\ WF_vars(1 \in DOMAIN tasks /\ CallbackReturns(1, FALSE))

SpecSlow == InitSlow /\ [][NextSlow]_vars /\ FairSlow

\* The codec applied to every response body: with and without event, payload,
\* header, status and data.
InitCodec == Init /\ cloud = {1}

NextCodec ==
  \/ \E response \in Responses : ParseStateResponse(response)
  \/ \E response \in Responses : ParseControlResponse(response)

SpecCodec == InitCodec /\ [][NextCodec]_vars

\* The downstream hub: browser sockets connect and disconnect while messages
\* are broadcast to them, and a send succeeds or fails.
InitHub == Init /\ cloud = {1}

NextHub ==
  \/ \E c \in 1..MaxSockets : HubConnect(c)
  \/ \E c \in 1..MaxSockets : HubDisconnect(c)
  \/ Broadcast
  \/ \E ok \in BOOLEAN : SendReturns(ok)

SpecHub == InitHub /\ [][NextHub]_vars

\* Startup under a vendor that answers: every vendor call returns or raises,
\* every timer fires and every task that can run is run.  The account does not
\* change.
NextStart ==
  \/ Start
  \/ DiscoveryWake
  \/ FamiliesOk
  \/ DevicesOk
  \/ BulkOk
  \/ DiscoveryApiError
  \/ GatherDone
  \/ \E t \in DOMAIN tasks : MonitorFirst(t)
  \/ \E t \in DOMAIN tasks : MonitorWake(t)
  \/ \E t \in DOMAIN tasks : MonitorRetry(t)
  \/ \E t \in DOMAIN tasks : FetchStdOk(t)
  \/ \E t \in DOMAIN tasks : FetchSpcOk(t)
  \/ \E t \in DOMAIN tasks : FetchError(t)

\* a vendor call of the discovery step returns or raises
DiscoveryAnswer == FamiliesOk \/ DevicesOk \/ BulkOk \/ DiscoveryApiError

\* a get-params call of the monitor task t returns or raises
FetchAnswer(t) ==
  t \in DOMAIN tasks /\ (FetchStdOk(t) \/ FetchSpcOk(t) \/ FetchError(t))

\* the event loop runs the new task t; the 10 s sleep of t ends
TaskRuns(t) == t \in DOMAIN tasks /\ (MonitorFirst(t) \/ MonitorRetry(t))

FairStart ==
  /\ WF_vars(DiscoveryAnswer)
  /\ WF_vars(GatherDone)
  /\ \A t \in DOMAIN Catalog : WF_vars(FetchAnswer(t)) /\ WF_vars(TaskRuns(t))

SpecStartFair == Init /\ [][NextStart]_vars /\ FairStart

\* a collaborator registers a subscriber
OnUpdate(raises) ==
  /\ Len(callbacks) < MaxSubs
  /\ callbacks' = on_update(callbacks, Callback(raises))
  /\ UNCHANGED <<lsn, app, cloud, envBudget, devices, monitors, triggers, ready,
                 tasks, discTask, disc, phase, call, last>>

\* The fan-out: subscribers that return and subscribers that raise are
\* registered at any time while the one air conditioner is monitored.
InitNotify == Constructed /\ cloud = {1} /\ callbacks = <<>>

NextNotify ==
  \/ Start
  \/ DiscoveryWake
  \/ FamiliesOk
  \/ DevicesOk
  \/ BulkOk
  \/ GatherDone
  \/ \E t \in DOMAIN tasks : MonitorFirst(t)
  \/ \E t \in DOMAIN tasks : MonitorWake(t)
  \/ \E t \in DOMAIN tasks : MonitorRetry(t)
  \/ \E t \in DOMAIN tasks : FetchStdOk(t)
  \/ \E t \in DOMAIN tasks : FetchSpcOk(t)
  \/ \E t \in DOMAIN tasks : FetchError(t)
  \/ \E raises \in BOOLEAN : OnUpdate(raises)

SpecNotify == InitNotify /\ [][NextNotify]_vars

\* Refresh on demand: the one air conditioner is switched on by callers and
\* named by cloud pushes while discovery refreshes its online flag and the
\* device may leave the account.  Every get-params call returns or raises,
\* every wait_for returns, by the trigger or by the timeout, and every task
\* that can run is run.
InitRefresh == Init /\ cloud = {1}

NextRefresh ==
  \/ Start
  \/ DiscoveryWake
  \/ FamiliesOk
  \/ DevicesOk
  \/ BulkOk
  \/ GatherDone
  \/ \E t \in DOMAIN tasks : MonitorFirst(t)
  \/ \E t \in DOMAIN tasks : MonitorWake(t)
  \/ \E t \in DOMAIN tasks : MonitorRetry(t)
  \/ \E t \in DOMAIN tasks : FetchStdOk(t)
  \/ \E t \in DOMAIN tasks : FetchSpcOk(t)
  \/ \E t \in DOMAIN tasks : FetchError(t)
  \/ \E t \in DOMAIN tasks : CancelDeliver(t)
  \/ PushTrigger(D1)
  \/ Control([op |-> "set_power", val |-> TRUE], D1)
  \/ \E o \in {"ok", "busy"} : ControlReturn(o)
  \/ EnvChange(1)

\* wait_for of the monitor task t returns
WaitReturns(t) == t \in DOMAIN tasks /\ MonitorWake(t)

FairRefresh ==
  \A t \in 1..(EnvBudget + 1) :
    WF_vars(FetchAnswer(t)) /\ WF_vars(TaskRuns(t)) /\ WF_vars(WaitReturns(t))

SpecRefreshFair == InitRefresh /\ [][NextRefresh]_vars /\ FairRefresh

\* The push listener: run_cloud_listener, its clients and their tasks, the
\* relay refusing, dropping and rejecting, and the shutdown of the listener.
InitListener == Init /\ cloud = {1}

NextListener ==
  \/ OuterConnect
  \/ OuterConnected
  \/ OuterRefused
  \/ OuterCloseStep
  \/ OuterBackoff
  \/ OuterPollExit
  \/ OuterCancel
  \/ \E t \in 1..(2 * MaxAttempts) : ReconnectLoop(t)
  \/ \E t \in 1..(2 * MaxAttempts) : ReconnectConnected(t)
  \/ \E t \in 1..(2 * MaxAttempts) : ReconnectRefused(t)
  \/ \E t \in 1..(2 * MaxAttempts) : ReconnectCloseStep(t)
  \/ \E t \in 1..(2 * MaxAttempts) : ReconnectCancelled(t)
  \/ \E t \in 1..(2 * MaxAttempts) : ListenEnds(t)
  \/ \E t \in 1..(2 * MaxAttempts) : ListenRejected(t)
  \/ \E t \in 1..(2 * MaxAttempts) : ListenCloseStep(t)
  \/ \E c \in 1..MaxAttempts : KeepaliveFails(c)
  \/ \E a \in 1..MaxAttempts : ConnLost(a)

SpecListener == InitListener /\ [][NextListener]_vars

\* Device lookup: find_device applied to every twin of up to MaxTwin devices
\* and every identifier of FinderQueries.
InitFinder ==
  /\ Idle
  /\ cloud = {1}
  /\ callbacks = Registered
  /\ devices \in Twins(MaxTwin)

NextFinder == \E q \in FinderQueries : FindDevice(q)

SpecFinder == InitFinder /\ [][NextFinder]_vars

\* Temperature validation applied to every tenth of a degree around the range.
InitValidate == Init /\ cloud = {1}

NextValidate == \E t10 \in MinTemp10..MaxTemp10 : ValidateTemperature(t10)

SpecValidate == InitValidate /\ [][NextValidate]_vars

\* Mode and fan-speed validation applied to every name in every letter case
\* and to strings that are no name.
InitNames == Init /\ cloud = {1}

NextNames ==
  \/ \E mode \in NameInputs : ValidateMode(mode)
  \/ \E speed \in NameInputs : ValidateFanSpeed(speed)

SpecNames == InitNames /\ [][NextNames]_vars

\* ================================================================== claims

\* C1: every coordinator control operation on a device whose cached online
\* flag is false at call entry raises DeviceOffline and issues no set-params
\* request, whatever parameter value was supplied.
C1_OfflineRaisesDeviceOffline ==
  (call.pc = "done" /\ call.offEntry) =>
     (call.res = "DeviceOffline" /\ ~call.sent)

\* C2 as stated: the N >= 1 trigger_update calls made between two consecutive
\* wakes of a device's monitor cause exactly one refresh: the pass begun by a
\* wake that found the trigger set consumed at least one call and issued the
\* get-params sequence once.
C2_TriggersCauseOneRefresh ==
  \A t \in DOMAIN tasks :
    tasks[t].byTrigger => (tasks[t].consumed >= 1 /\ tasks[t].fetched = 1)

\* C2 as amended: the N >= 1 trigger_update calls made between two consecutive
\* wakes of a device's monitor cause exactly one monitor pass, which clears the
\* trigger and refreshes the device once if its cached online flag is true at
\* the wake and not at all if it is false; a set trigger always stands for at
\* least one call.
C2_TriggersCauseOnePass ==
  /\ \A t \in DOMAIN tasks :
       tasks[t].byTrigger =>
         /\ tasks[t].consumed >= 1
         /\ tasks[t].fetched = IF tasks[t].onl THEN 1 ELSE 0
  /\ \A d \in DOMAIN triggers : triggers[d].set <=> triggers[d].n >= 1

\* two trigger_update calls were coalesced into the one refresh in flight
C2_Witness ==
  \E t \in DOMAIN tasks :
    /\ tasks[t].byTrigger /\ tasks[t].consumed = 2
    /\ tasks[t].pc = "std" /\ tasks[t].fetched = 1
    /\ ~triggers[tasks[t].dev].set

\* C3 as stated: a trigger delivered in any phase of the monitor's loop is
\* never lost: it stays set until a wake, and it is serviced by a refresh that
\* starts after the delivery.
C3_TriggerServicedByRefresh ==
  \A d \in DOMAIN triggers :
    /\ triggers[d].pend = "pending" => triggers[d].set
    /\ triggers[d].pend # "skipped"

\* C3 as amended: while the device stays in the twin, a trigger delivered in
\* any phase of the monitor's loop stays set until the monitor's next wake; the
\* pass that follows starts after the delivery and refreshes the device if its
\* cached online flag is true, and consumes the trigger without a refresh if
\* the flag is false.
C3_TriggerServicedByPass ==
  \A d \in DOMAIN triggers :
    /\ triggers[d].pend = "pending" => triggers[d].set
    /\ triggers[d].pend = "skipped" =>
          /\ d \in DOMAIN monitors
          /\ tasks[monitors[d]].pc = "wait"
          /\ tasks[monitors[d]].fetched = 0
          /\ ~tasks[monitors[d]].onl

\* a trigger was delivered while the refresh is in flight and is still set
C3_Witness ==
  \E t \in DOMAIN tasks :
    /\ tasks[t].pc \in {"std", "spc"} /\ ~tasks[t].cancelled
    /\ tasks[t].dev \in DOMAIN triggers
    /\ triggers[tasks[t].dev].pend = "pending"
    /\ triggers[tasks[t].dev].set

\* the monitor tasks with a get-params request of device d in flight
InFlight(d) ==
  {t \in DOMAIN tasks : tasks[t].dev = d /\ tasks[t].pc \in {"std", "spc"}}

\* C4: at every time at most one get-params sequence issued by a monitor is in
\* flight for any device id, also when discovery removes the device and adds
\* it again.
C4_OneRefreshInFlight ==
  \A i \in DOMAIN Catalog : Cardinality(InFlight(Catalog[i].did)) <= 1

\* the device was removed, its monitor was cancelled and has ended, the device
\* was added again and its new monitor has a refresh in flight
C4_Witness ==
  \E t1, t2 \in DOMAIN tasks :
    /\ t1 # t2 /\ tasks[t1].dev = tasks[t2].dev
    /\ tasks[t1].cancelled /\ tasks[t1].pc = "done"
    /\ t2 \in InFlight(tasks[t2].dev)

\* start() returns
StartReturns == phase \in {"discovering", "gather"} /\ phase' = "started"

\* C5: when start() returns, every device found by the initial discovery step
\* has its ready latch set; a latch is set only by the monitor pass of its
\* device coming to its end (by a fetch, a failed fetch or the skip of an
\* offline device); the discovery loop does not exist before start() returns.
C5_StartAwaitsFirstPasses ==
  [][/\ StartReturns =>
          /\ \A d \in Keys(devices') : d \in DOMAIN ready' /\ ready'[d]
          /\ \A d \in Keys(devices') : tasks'[monitors'[d]].pc \notin {"start"}
          /\ ~discTask /\ discTask'
     /\ \A d \in DOMAIN ready \cap DOMAIN ready' :
          (~ready[d] /\ ready'[d]) =>
             /\ tasks[monitors[d]].pc \in {"start", "std", "spc"}
             /\ tasks'[monitors[d]].pc \in {"wait", "errsleep"}
     /\ phase' \in {"discovering", "gather"} => (~discTask' /\ disc'.pc # "sleep")]_vars

\* start() has returned with an account of three kinds of first pass: a
\* fetch, a failed fetch and the skip of an offline device
C5_Witness ==
  /\ phase = "started" /\ disc.pc = "sleep" /\ last.ids = {D1, D2}
  /\ \A d \in Keys(devices) : ready[d]
  /\ \E t \in DOMAIN tasks : tasks[t].pc = "errsleep"
  /\ \E t \in DOMAIN tasks : tasks[t].pc = "wait" /\ tasks[t].fetched = 0

C7_OneMonitorPerDevice ==
  phase = "started" =>
    /\ DOMAIN monitors = Keys(devices)
    /\ DOMAIN triggers = Keys(devices)
    /\ DOMAIN ready = Keys(devices)
    /\ Len(devices) = Cardinality(Keys(devices))
    /\ \A d \in DOMAIN monitors :
         /\ monitors[d] \in DOMAIN tasks
         /\ tasks[monitors[d]].dev = d
         /\ tasks[monitors[d]].pc # "done"
         /\ ~tasks[monitors[d]].cancelled
    /\ \A t \in DOMAIN tasks :
         (tasks[t].pc # "done" /\ ~tasks[t].cancelled) =>
            (tasks[t].dev \in DOMAIN monitors /\ monitors[tasks[t].dev] = t)

\* discovery steps have removed a device and added one after start() returned
C7_Witness ==
  /\ phase = "started" /\ devices # <<>>
  /\ \E t \in DOMAIN tasks : tasks[t].pc = "done" /\ tasks[t].cancelled
  /\ \E d \in DOMAIN ready : ~ready[d]

\* a discovery step ends, by return or by the swallowed exception
StepReturns == disc.pc \in StepPcs /\ disc'.pc \in {"sleep", "idle"}

\* C8: with a vendor listing that has not changed and no vendor call that
\* raised, the twin's id set after a discovery step is the listing's id set,
\* and a further step of the loop leaves the membership and the monitors as
\* they are.
C8_DiscoveryConverges ==
  [][(StepReturns /\ envBudget = EnvBudget /\ ~last'.apiErr) =>
        /\ Keys(devices') = {Catalog[i].endpointId : i \in cloud}
        /\ (last.done /\ ~last.apiErr /\ phase = "started") =>
              (Keys(devices') = Keys(devices) /\ monitors' = monitors)]_vars

\* C9: when a vendor call of a refresh has failed, the device's params mapping
\* is what it was when the refresh started.
C9_RefreshAtomic ==
  \A t \in DOMAIN tasks :
    (/\ tasks[t].pc = "errsleep" /\ ~tasks[t].cancelled /\ tasks[t].fetched = 1
     /\ Has(devices, tasks[t].dev)) =>
       Get(devices, tasks[t].dev).params = tasks[t].snap

\* the response of the set-params request of the call in flight arrives
ControlReturns == call.pc = "inflight" /\ call'.pc = "done"

\* C10 as stated: a control call sets the device's trigger if and only if its
\* set-params request succeeded, and a failed request leaves the triggers and
\* the twin unchanged.
C10_TriggerIffSuccess ==
  [][ControlReturns =>
       /\ (call'.res = "ok") =>
             (call.eid \in DOMAIN triggers' /\ triggers'[call.eid].set)
       /\ (call'.res # "ok") => (triggers' = triggers /\ devices' = devices)]_vars

\* C10 as amended: a control call whose set-params request succeeded sets the
\* trigger registered under the device's endpoint id, if one is registered
\* when the response arrives (the device may have been removed meanwhile); a
\* call whose request failed sets no trigger; in both cases the call leaves
\* the twin, the monitors and the ready latches unchanged.
C10_TriggerOnSuccessIfMonitored ==
  [][ControlReturns =>
       /\ (call'.res = "ok" /\ call.eid \in DOMAIN triggers) =>
             (triggers'[call.eid].set /\ triggers'[call.eid].pend = "pending")
       /\ (call'.res = "ok" /\ call.eid \notin DOMAIN triggers) => triggers' = triggers
       /\ (call'.res # "ok") => triggers' = triggers
       /\ DOMAIN triggers' = DOMAIN triggers
       /\ \A d \in DOMAIN triggers : d # call.eid => triggers'[d] = triggers[d]
       /\ devices' = devices /\ monitors' = monitors /\ ready' = ready]_vars

\* a request failed with ServerBusy while the device's monitor waits with its
\* trigger clear
C10_Witness ==
  /\ call.pc = "done" /\ call.res = "ServerBusy"
  /\ call.eid \in DOMAIN triggers /\ ~triggers[call.eid].set
  /\ \E t \in DOMAIN tasks : tasks[t].dev = call.eid /\ tasks[t].pc = "wait"

\* C11: every failure of the set-params request reaches the caller of a
\* coordinator control operation as a domain error: ServerBusy for the API's
\* ServerBusy, DeviceOffline for the API's DeviceOffline, ClimateHubError for
\* any other failure of the API layer, a malformed response envelope included.
C11_FailuresMappedToDomain ==
  [][\A o \in ApiOutcomes :
        (call.pc = "inflight" /\ ControlReturn(o)) =>
           call'.res = CASE o = "ok" -> "ok"
                         [] o = "busy" -> "ServerBusy"
                         [] o = "unreachable" -> "DeviceOffline"
                         [] OTHER -> "ClimateHubError"]_vars

\* the last get-params call of the refresh of task t returns
RefreshSucceeds(t) ==
  /\ tasks[t].pc \in {"std", "spc"}
  /\ (FetchStdOk(t) \/ FetchSpcOk(t))
  /\ tasks'[t].pc # "spc"

\* C17: when a refresh has succeeded, every subscriber is invoked, in
\* registration order and with the refreshed device, also after a subscriber
\* that raised, and the monitor goes on to its wait: it neither enters its
\* error path nor ends.
C17_FailingSubscriberSkipped ==
  [][\A t \in DOMAIN tasks :
        RefreshSucceeds(t) =>
          /\ tasks'[t].pc = "wait"
          /\ Len(tasks'[t].pub) = Len(callbacks)
          /\ \A i \in DOMAIN callbacks :
               /\ tasks'[t].pub[i].cb = i
               /\ tasks'[t].pub[i].device = tasks[t].dev
               /\ tasks'[t].pub[i].raised = callbacks[i].raises]_vars

\* a subscriber raised, the two registered after it were invoked, and the
\* monitor waits
C17_Witness ==
  \E t \in DOMAIN tasks :
    /\ tasks[t].pc = "wait" /\ ~tasks[t].cancelled
    /\ Len(tasks[t].pub) = 3
    /\ tasks[t].pub[1].raised /\ ~tasks[t].pub[2].raised /\ tasks[t].pub[3].raised

\* device d is in the twin with its cached online flag true
PresentOnline(d) == Has(devices, d) /\ is_online(Get(devices, d))

\* the trigger of device d is set and awaits its refresh while d is present
\* and online
TriggeredOnline(d) ==
  /\ d \in DOMAIN triggers /\ triggers[d].pend = "pending"
  /\ PresentOnline(d)

\* the monitor of d has just issued the first get-params request of a refresh
\* that began after every trigger delivered so far
RefreshStarted(d) ==
  /\ d \in DOMAIN monitors /\ d \in DOMAIN triggers
  /\ tasks[monitors[d]].pc = "std" /\ triggers[d].pend = "none"

\* a refresh that succeeded has been published to every subscriber
PublishedOnSuccess ==
  [](\A t \in DOMAIN tasks :
       (tasks[t].pc = "wait" /\ ~tasks[t].cancelled /\ tasks[t].fetched = 1) =>
          /\ Len(tasks[t].pub) = Len(callbacks)
          /\ \A i \in DOMAIN callbacks : tasks[t].pub[i].cb = i)

C14_DelayDoublesFromFive ==
  \A a \in DOMAIN atts :
    atts[a].after >= 1 =>
      atts[a].waited = Min(INITIAL_RETRY_DELAY * 2 ^ (atts[a].after - 1),
                           max_delay)

\* C15: once a client's __aexit__ (close_websocket) has completed, no further
\* connection attempt is made for that client.
C15_NoAttemptAfterShutdown ==
  [][\A c \in DOMAIN clients :
       clients[c].shut =>
         \A a \in DOMAIN atts' : a \notin DOMAIN atts => atts'[a].client # c]_vars

\* C16: at most one connection to the relay is open at any time.
C16_SingleUpstreamConnection ==
  Cardinality({a \in DOMAIN atts : atts[a].ws = "open"}) <= 1


\* C18: find_device returns the first device in insertion order under the
\* highest-priority rule that matches any device: (a) endpoint id equal to
\* the query, else (b) friendly name equal to it case-insensitively, else
\* (c) the query a case-insensitive substring of the friendly name; it raises
\* DeviceNotFound when no rule matches any device.
C18_FirstHitByPriority ==
  call.pc = "found" =>
    LET q == call.q
        a == {i \in DOMAIN devices : devices[i].endpoint_id = q}
        b == {i \in DOMAIN devices :
                Lower(devices[i].friendly_name) = Lower(q)}
        c == {i \in DOMAIN devices :
                IsSubstring(Lower(q), Lower(devices[i].friendly_name))}
        hit == IF a # {} THEN a ELSE IF b # {} THEN b ELSE c
    IN IF hit = {}
       THEN call.res = "DeviceNotFound"
       ELSE /\ call.res = "ok"
            /\ call.idx \in hit
            /\ \A j \in hit : call.idx <= j

\* the second device is returned for its exact name although the first
\* device's name contains the query
C18_Witness ==
  /\ call.pc = "found"
  /\ call.idx = 2
  /\ Lower(devices[2].friendly_name) = Lower(call.q)
  /\ devices[2].endpoint_id # call.q
  /\ IsSubstring(Lower(call.q), Lower(devices[1].friendly_name))

\* C19: for every device of the twin, a lookup by its endpoint id and a
\* lookup by its upper-cased friendly name both return that device.
C19_IdAndUpperNameFindDevice ==
  call.pc = "found" =>
    \A i \in DOMAIN devices :
      /\ call.q = devices[i].endpoint_id => call.idx = i
      /\ call.q = Upper(devices[i].friendly_name) => call.idx = i


\* C20: temperature validation accepts exactly the values from 16 to 30 that
\* lie on a half-degree step, and every other value raises InvalidParameter
\* naming the parameter, the supplied value and a non-empty accepted range.
C20_AcceptsHalfDegreeStepsInRange ==
  call.pc = "validated" =>
    /\ call.v.ok <=> /\ MIN_TEMPERATURE * 10 <= call.t10
                     /\ call.t10 <= MAX_TEMPERATURE * 10
                     /\ call.t10 % 5 = 0
    /\ ~call.v.ok => /\ call.v.param_name = "temperature"
                     /\ call.v.value = call.t10
                     /\ call.v.valid_values # <<>>

\* C20 as the code has it: every value from 16 to 30 is accepted, on a
\* half-degree step or not (16.0, 22.5, 30.0 and also 22.3); every value
\* outside (15, 15.9, 30.1, 31) raises InvalidParameter naming the parameter,
\* the supplied value and a non-empty accepted range.
C20_AcceptsWholeRange ==
  call.pc = "validated" =>
    /\ call.v.ok <=> /\ MIN_TEMPERATURE * 10 <= call.t10
                     /\ call.t10 <= MAX_TEMPERATURE * 10
    /\ call.t10 \in {160, 225, 300} => call.v.ok
    /\ call.t10 \in {150, 159, 301, 310} => ~call.v.ok
    /\ ~call.v.ok => /\ call.v.param_name = "temperature"
                     /\ call.v.value = call.t10
                     /\ call.v.valid_values # <<>>

\* 22.3 has been validated and accepted
C20_Witness ==
  /\ call.pc = "validated"
  /\ call.t10 = 223
  /\ call.v.ok

\* C21: every set-params request that set_temperature issues for an accepted
\* temperature t carries temp = t x 10 (tenths of a degree), on the
\* coordinator's path, whose argument the model holds in tenths, and on the
\* manager's path, whose argument is in degrees.
C21_TemperatureSentInTenths ==
  [][/\ \A inp \in ControlInputs, q \in Queries :
          (Control(inp, q) /\ inp.op = "set_temperature" /\ call'.pc = "inflight")
            => call'.params = [k \in {"temp"} |-> inp.val]
     /\ \A inp \in ManagerInputs, q \in Queries :
          (ManagerControl(inp, q) /\ inp.op = "set_temperature"
             /\ mgr'.op.pc = "inflight")
            => mgr'.op.params = [k \in {"temp"} |-> inp.val * 10]]_vars

\* C22: validate_mode maps each of cool, heat, dry, fan, auto, in any letter
\* case, to 0..4 under the key ac_mode; validate_fan_speed maps each of auto,
\* low, medium, high, turbo, mute, in any letter case, to 0..5 under the key
\* ac_mark; every other string raises InvalidParameter with the parameter's
\* name, the string as given and all the accepted names.
C22_NamesAnyCaseElseInvalid ==
  /\ call.pc = "mode" =>
       /\ \A i \in DOMAIN MODE_MAP :
            call.arg \in CaseVariants(MODE_MAP[i]) =>
              (call.v.ok /\ call.v.params = [k \in {"ac_mode"} |-> i - 1])
       /\ call.arg \notin UNION {CaseVariants(n) : n \in Names(MODE_MAP)} =>
            /\ ~call.v.ok
            /\ call.v.param_name = "mode"
            /\ call.v.value = call.arg
            /\ call.v.valid_values =
                 << <<"c", "o", "o", "l">>, <<"h", "e", "a", "t">>, <<"d", "r", "y">>,
                    <<"f", "a", "n">>, <<"a", "u", "t", "o">> >>
  /\ call.pc = "fan_speed" =>
       /\ \A i \in DOMAIN FAN_SPEED_MAP :
            call.arg \in CaseVariants(FAN_SPEED_MAP[i]) =>
              (call.v.ok /\ call.v.params = [k \in {"ac_mark"} |-> i - 1])
       /\ call.arg \notin UNION {CaseVariants(n) : n \in Names(FAN_SPEED_MAP)} =>
            /\ ~call.v.ok
            /\ call.v.param_name = "fan_speed"
            /\ call.v.value = call.arg
            /\ Names(FAN_SPEED_MAP) = {call.v.valid_values[i] :
                                         i \in DOMAIN call.v.valid_values}
            /\ Len(call.v.valid_values) = 6

\* "Cool" was accepted as mode 0
C22_Witness ==
  /\ call.pc = "mode"
  /\ call.arg = <<"C", "o", "o", "l">>
  /\ call.v.ok
  /\ call.v.params["ac_mode"] = 0

\* C23: a login the vendor answers with a status other than 0 surfaces from
\* DeviceManager.login as AuthenticationError and leaves loginsession and
\* userid as they were, so a client that was not logged in stays so; and
\* is_logged_in() becomes true only by a login answered with status 0.
C23_FailedLoginAuthenticationError ==
  [][/\ LoginReturn("refused") =>
          /\ mgr'.op.res = "AuthenticationError"
          /\ mgr'.loginsession = mgr.loginsession
          /\ mgr'.userid = mgr.userid
          /\ is_logged_in(mgr') = is_logged_in(mgr)
     /\ (~is_logged_in(mgr) /\ is_logged_in(mgr')) => LoginReturn("status0")]_vars

\* the message is a push whose data is an object with a non-empty string
\* under "endpointId"
CarriesEndpoint(msg) ==
  /\ "msgtype" \in DOMAIN msg /\ msg.msgtype = Str(<<"push">>)
  /\ "data" \in DOMAIN msg /\ msg.data.json = "obj"
  /\ "endpointId" \in DOMAIN msg.data.v
  /\ msg.data.v.endpointId.json = "str"
  /\ msg.data.v.endpointId.v # <<>>

\* C24: of the messages the push listener forwards, a push that carries
\* data.endpointId sets the trigger of that endpoint, touches no other trigger
\* and is not broadcast; every other message is broadcast as it is and sets
\* no trigger.
C24_PushTriggersElseBroadcast ==
  [][\A msg \in CloudMessages :
       OnCloudMessage(msg) =>
         IF CarriesEndpoint(msg)
         THEN LET id == msg.data.v.endpointId.v
              IN /\ bcast'.out = <<>>
                 /\ id \in DOMAIN triggers => triggers'[id].set
                 /\ \A d \in DOMAIN triggers : d # id => triggers'[d] = triggers[d]
         ELSE /\ bcast'.out = <<msg>>
              /\ triggers' = triggers]_vars

\* C25: a control call whose identifier resolves to no device raises
\* DeviceNotFound whether or not the parameter value is valid, and
\* InvalidParameter is raised only for a device that was found and is online,
\* through the coordinator and through the manager.
C25_LookupBeforeValidation ==
  [][/\ \A inp \in ControlInputs, q \in Queries :
          Control(inp, q) =>
            LET i == find_device(devices, q)
            IN /\ i = 0 => call'.res = "DeviceNotFound"
               /\ call'.res = "InvalidParameter" => (i # 0 /\ is_online(devices[i]))
     /\ \A inp \in ManagerInputs, q \in Queries :
          ManagerControl(inp, q) =>
            LET i == find_device(mgr.devices, q)
            IN /\ i = 0 => mgr'.op.res = "DeviceNotFound"
               /\ mgr'.op.res = "InvalidParameter" =>
                    (i # 0 /\ is_online(mgr.devices[i]))]_vars

\* a control call through the manager ended with an ErrorResponse
ErrorParsed == IsControl(mgr.op) /\ mgr.op.pc = "done" /\ DOMAIN mgr.op.raised # {}

\* C26: parsing an ErrorResponse raises one error per payload: ServerBusy for
\* status -49002; otherwise DataError for status -1005; otherwise
\* DeviceOffline for type ENDPOINT_UNREACHABLE; otherwise the base API error;
\* and the error's details hold the payload's type and status.
C26_ErrorPrecedence ==
  ErrorParsed =>
    LET p == mgr.op.raised.payload
        e == mgr.op.raised.e
        busy == "status" \in DOMAIN p /\ p.status = 0 - 49002
        data == "status" \in DOMAIN p /\ p.status = 0 - 1005
        unreachable == "type" \in DOMAIN p /\ p.type = "ENDPOINT_UNREACHABLE"
    IN /\ e.error = IF busy THEN "ServerBusyError"
                    ELSE IF data THEN "DataError"
                    ELSE IF unreachable THEN "DeviceOfflineError"
                    ELSE "AuxAPIError"
       /\ "type" \in DOMAIN p => e.details.type = p.type
       /\ "status" \in DOMAIN p => e.details.status = p.status

\* an unreachable endpoint reported with the busy status was parsed as
\* ServerBusy
C26_Witness ==
  /\ ErrorParsed
  /\ mgr.op.raised.payload = [type |-> "ENDPOINT_UNREACHABLE", status |-> 0 - 49002]
  /\ mgr.op.raised.e.error = "ServerBusyError"
  /\ mgr.op.raised.e.details = [type |-> "ENDPOINT_UNREACHABLE", status |-> 0 - 49002]

\* C27: get_devices_cached returns the cached list without calling the vendor
\* exactly when the list is non-empty and younger than the TTL; a call with
\* ttl=0 and the first call after invalidate_cache() refresh from the vendor,
\* and a refresh that returned restarts the cache age at the call's time.
C27_CachedIffFreshAndInvalidateRefreshes ==
  mgr.op.name = "get_devices_cached" =>
    /\ mgr.op.res = "cached" <=> (mgr.op.cached > 0 /\ mgr.op.age < mgr.op.ttl)
    /\ mgr.op.ttl = 0 => mgr.op.res # "cached"
    /\ mgr.op.stale => mgr.op.res # "cached"
    /\ (mgr.op.res = "refreshed" /\ ~mgr.stale) => mgr._cache_timestamp = mgr.op.now

\* the four dicts hold the same devices
MapsAgree ==
  /\ Keys(devices) = DOMAIN monitors
  /\ DOMAIN monitors = DOMAIN triggers
  /\ DOMAIN triggers = DOMAIN ready

\* C28: once a discovery step has cancelled the monitor of a removed device,
\* that task issues no fetch, writes nothing to the twin and notifies nobody:
\* all it does is end; and from the time start() has started the monitors, a
\* device is in all of devices, monitors, triggers and ready or in none.
C28_CancelledMonitorInertMapsAgree ==
  [][/\ \A t \in DOMAIN tasks :
          (tasks[t].cancelled /\ tasks'[t] # tasks[t]) =>
            /\ tasks'[t].pc = "done"
            /\ devices' = devices
            /\ triggers' = triggers
            /\ ready' = ready
     /\ phase' \notin {"new", "discovering"} => MapsAgree']_vars

\* a device was removed while its monitor awaited the vendor's answer; the
\* coordinator keeps running
C28_Witness ==
  /\ phase = "started"
  /\ \E t \in DOMAIN tasks :
       /\ tasks[t].cancelled
       /\ tasks[t].pc = "std"
       /\ tasks[t].dev \notin Keys(devices)
       /\ tasks[t].dev \notin DOMAIN monitors

\* C29: a monitor whose fetch fails sets its ready latch and sleeps; when the
\* sleep is over it runs another pass; a subscriber that raises does not take
\* the monitor off its way to the wait; and a monitor task ends only when it
\* has been cancelled.
C29_MonitorSurvivesErrors ==
  [][\A t \in DOMAIN tasks :
       /\ FetchError(t) =>
            /\ tasks'[t].pc = "errsleep"
            /\ tasks[t].dev \in DOMAIN ready' /\ ready'[tasks[t].dev]
       /\ (tasks[t].pc = "errsleep" /\ tasks'[t].pc # "errsleep") =>
            \/ tasks'[t].pc \in {"std", "wait"}
            \/ tasks[t].cancelled /\ tasks'[t].pc = "done"
       /\ (tasks[t].pc \in {"std", "spc"} /\ tasks'[t].pub # <<>>) =>
            tasks'[t].pc = "wait"
       /\ (tasks[t].pc # "done" /\ tasks'[t].pc = "done") => tasks[t].cancelled]_vars

\* the first pass of a monitor failed: the latch is set and the monitor
\* sleeps, not cancelled, while start() awaits the latches
C29_Witness ==
  /\ phase = "gather"
  /\ \E t \in DOMAIN tasks :
       /\ tasks[t].pc = "errsleep" /\ ~tasks[t].cancelled
       /\ ready[tasks[t].dev]

\* the running discovery step ends by an exception: a vendor call raises, or
\* the answer of the bulk query is processed for a list with an entry that
\* has no "did"
StepFails ==
  \/ DiscoveryApiError
  \/ BulkOk /\ \E i \in DOMAIN disc.raw : disc.raw[i].did = NoDid

\* C30: a discovery step that ends by an exception removes no device from the
\* twin and cancels no monitor; the discovery loop then sleeps until its next
\* tick (the step inside start() lets start() go on), and a tick begins a new
\* step with get_families.
C30_FailedStepRemovesNothing ==
  [][/\ StepFails =>
          /\ Keys(devices) \subseteq Keys(devices')
          /\ \A d \in DOMAIN monitors :
               d \in DOMAIN monitors' /\ monitors'[d] = monitors[d]
          /\ \A t \in DOMAIN tasks : tasks'[t].cancelled = tasks[t].cancelled
          /\ IF phase = "discovering"
             THEN phase' \in {"gather", "started"}
             ELSE disc' = IdleDisc("sleep") /\ discTask'
     /\ DiscoveryWake => disc' = IdleDisc("families")]_vars

\* the loop sleeps after a step that listed the first family and then failed:
\* the second device, which the vendor no longer lists, is still in the twin
\* and its monitor is not cancelled
C30_Witness ==
  /\ phase = "started" /\ disc.pc = "sleep"
  /\ last.done /\ last.apiErr /\ D1 \in last.ids /\ D2 \notin last.ids
  /\ 2 \notin cloud
  /\ Has(devices, D2) /\ D2 \in DOMAIN monitors
  /\ ~tasks[monitors[D2]].cancelled


\* the discovery step in progress ends with this transition
StepEnds == disc.pc \in StepPcs /\ disc'.pc \notin StepPcs

\* C31: when the requests for one family fail in every discovery step, each
\* step still ends with every device the vendor lists in another family in
\* the twin, and with no device of another family in the twin that the vendor
\* has stopped listing.
C31_BrokenFamilyDoesNotFreeze ==
  [][StepEnds =>
       /\ \A i \in cloud :
            Catalog[i].family # broken => Has(devices', Catalog[i].did)
       /\ \A i \in DOMAIN Catalog :
            (Catalog[i].family # broken /\ Has(devices', Catalog[i].did))
              => i \in cloud]_vars

\* a pass of monitor t begins with this transition
PassBegins(t) == MonitorFirst(t) \/ MonitorWake(t) \/ MonitorRetry(t)

\* the transition issues a get-params request of monitor t
IssuesGetParams(t) ==
  /\ tasks'[t].pc \in {"std", "spc"}
  /\ tasks'[t].pc # tasks[t].pc

\* C32: a monitor pass issues get-params only if the device is in the twin
\* with its online flag true when the pass begins, and the second request of
\* a pass belongs to such a pass; a pass that begins for an offline device
\* sets the ready latch and enters the wait with no request issued, leaves
\* every Device of the twin as it was and publishes nothing.
C32_OfflinePassFetchesNothing ==
  [][\A t \in DOMAIN tasks :
       /\ IssuesGetParams(t) =>
            LET d == tasks[t].dev IN
              /\ Has(devices, d)
              /\ IF tasks'[t].pc = "std"
                 THEN PassBegins(t) /\ is_online(Get(devices, d))
                 ELSE tasks[t].pc = "std" /\ tasks[t].onl
       /\ (PassBegins(t) /\ Has(devices, tasks[t].dev)
             /\ ~is_online(Get(devices, tasks[t].dev))) =>
            /\ tasks'[t].pc = "wait"
            /\ tasks'[t].fetched = 0
            /\ tasks'[t].pub = <<>>
            /\ ready'[tasks[t].dev]
            /\ devices' = devices]_vars

\* a device that was refreshed and then went offline: its monitor made a pass
\* without a request, and the parameters of the last refresh are still there
C32_Witness ==
  \E t \in DOMAIN tasks :
    /\ tasks[t].pc = "wait"
    /\ ~tasks[t].cancelled
    /\ tasks[t].fetched = 0
    /\ Has(devices, tasks[t].dev)
    /\ ~is_online(Get(devices, tasks[t].dev))
    /\ Get(devices, tasks[t].dev).params # NoParams
    /\ Get(devices, tasks[t].dev).last_updated # NoStamp
    /\ ready[tasks[t].dev]

\* a transition of the discovery step in progress (stop() cancelling the
\* discovery task is none)
StepActs == disc.pc \in StepPcs /\ disc' # disc /\ disc'.pc # "cancelled"

\* C33: no transition of a discovery step changes, for a device that is in the
\* twin before and after it, anything of the Device but its online flag, nor
\* the device's monitor task, trigger or ready latch.
C33_StepChangesOnlyOnlineFlag ==
  [][StepActs =>
       \A d \in Keys(devices) \cap Keys(devices') :
         /\ Get(devices', d) = [Get(devices, d) EXCEPT !.state = Get(devices', d).state]
         /\ d \in DOMAIN monitors =>
              /\ d \in DOMAIN monitors' /\ monitors'[d] = monitors[d]
              /\ tasks'[monitors[d]] = tasks[monitors[d]]
              /\ d \in DOMAIN triggers' /\ triggers'[d] = triggers[d]
              /\ d \in DOMAIN ready' /\ ready'[d] = ready[d]]_vars

\* a step of the discovery loop has turned the online flag of a refreshed
\* device off and its parameters and timestamp are still those of the refresh
C33_Witness ==
  /\ phase = "started"
  /\ disc.pc = "sleep"
  /\ last.done /\ ~last.apiErr
  /\ Has(devices, D1)
  /\ Get(devices, D1).state = OFFLINE
  /\ Get(devices, D1).params # NoParams
  /\ Get(devices, D1).last_updated # NoStamp
  /\ D1 \in DOMAIN monitors /\ tasks[monitors[D1]].pc = "wait"
  /\ tasks[monitors[D1]].fetched = 1

\* C34: the first connection attempt made after the relay rejected a session
\* (initk or pingk with a status other than 0) was preceded by a delay of at
\* least the initial reconnect delay, 5 s.
C34_DelayAfterSessionDeath ==
  (net.deadAt # NoDeath /\ Len(atts) > net.deadAt) =>
    atts[net.deadAt + 1].waited >= INITIAL_RETRY_DELAY

\* C35: on every connection the first frame sent is the init frame, and every
\* ping sent on it comes after the initk with status 0 was received on it.
C35_InitFirstNoPingBeforeInitk ==
  \A a \in DOMAIN ka.wire :
    /\ ka.wire[a] # <<>> => ka.wire[a][1].f = "init"
    /\ \A i \in DOMAIN ka.wire[a] :
         ka.wire[a][i].f = "ping" =>
           \E j \in 1..(i - 1) : ka.wire[a][j].f = "initk"

\* the keep-alive loops that have sent a ping on connection a
Pingers(a) ==
  {ka.wire[a][i].by : i \in {j \in DOMAIN ka.wire[a] : ka.wire[a][j].f = "ping"}}

\* C39: at most one keep-alive loop of a client is in its loop at any time,
\* so that the pings sent on a connection all come from one loop.
C39_OneKeepaliveLoop ==
  /\ \A a \in DOMAIN ka.wire : Cardinality(Pingers(a)) <= 1
  /\ \A c \in DOMAIN clients :
       WsOpen(clients, atts, c) =>
         Cardinality({k \in DOMAIN ka.loops :
                        ka.loops[k].client = c /\ ka.loops[k].pc # "done"}) <= 1

\* the monitor of the air conditioner awaits the slow subscriber's callback
SlowPending ==
  /\ 1 \in DOMAIN tasks
  /\ tasks[1].pc = "cb"
  /\ callbacks[Len(tasks[1].pub)].slow

\* the update of the pass in progress has been passed to subscriber i
Received(i) ==
  /\ 1 \in DOMAIN tasks
  /\ \E j \in DOMAIN tasks[1].pub : tasks[1].pub[j].cb = i

\* C36: while the slow subscriber's callback for an update has not returned,
\* the other subscriber still receives that update, and a trigger set for the
\* device meanwhile is still served by a pass of its monitor.
C36_SlowSubscriberTolerated ==
  /\ SlowPending ~> (Received(2) \/ ~SlowPending)
  /\ (SlowPending /\ triggers[D1].set) ~> (RefreshStarted(D1) \/ ~SlowPending)

\* the envelope lacks its event member or the event its payload member
Malformed(response) ==
  "event" \notin DOMAIN response \/ "payload" \notin DOMAIN response.event

\* C37: parse_state_response and parse_control_response raise ProtocolError
\* for a response whose event or payload member is missing.
C37_MalformedEnvelopeProtocolError ==
  (call.pc \in {"state_response", "control_response"} /\ Malformed(call.arg))
    => call.v.error = "ProtocolError"

\* C38: when a broadcast returns, the message has been sent, successfully or
\* not, to every socket that was in the active list from the begin of the
\* loop to its end, and the active list holds the sockets that were in it or
\* joined it, less those whose send failed and those that disconnected.
C38_BroadcastReachesAllConnected ==
  [][(hub.b.pc = "send" /\ hub'.b.pc = "done") =>
       /\ \A c \in hub'.b.start \ hub'.b.gone :
            c \in hub'.b.got \/ c \in Elems(hub'.b.failed)
       /\ Elems(hub'.active_connections) =
            (hub'.b.start \cup hub'.b.joined)
              \ (Elems(hub'.b.failed) \cup hub'.b.gone)]_vars

\* C40: every Device of the twin is stored under its own endpoint_id, and
\* every monitor, trigger and ready latch is registered under the key of a
\* Device of the twin, so trigger_update(device.endpoint_id) reaches that
\* device's trigger.
C40_TwinKeyIsEndpointId ==
  /\ \A i \in DOMAIN devices : devices[i].key = devices[i].endpoint_id
  /\ DOMAIN triggers \subseteq Keys(devices)
  /\ DOMAIN monitors \subseteq Keys(devices)
  /\ DOMAIN ready \subseteq Keys(devices)
====
